---- MODULE Spec2Model ----
(***************************************************************************)
(* A model of 3dlab: the server's multi-resolution resampler and volume    *)
(* store (server/src/hdf5_reader.rs, state.rs, routes.rs) and the client's *)
(* camera and occupancy-grid builder (client/src/renderer).                *)
(*                                                                         *)
(* Voxel values are f32 in the program.  The model uses the f32 values     *)
(* that are small non-negative integers (every one of them is exactly      *)
(* representable), and encodes them to their IEEE-754 bit pattern where    *)
(* the program serialises them.                                            *)
(***************************************************************************)
EXTENDS Integers, Sequences, FiniteSets, TLC

VARIABLES
    ds_data,      \* downsample: the Array3 handed to HDF5Volume::downsample
    ds_target,    \* downsample: target_size
    ds_result,    \* downsample: the returned Array3
    ds_pc,        \* downsample: "call" before the call, "done" after it
    files,        \* server: the state of each file of the samples directory
    volumes,      \* server: AppState.volumes, id -> HDF5Volume
    inflight,     \* server: the requests being handled or answered
    camera,       \* client: the Camera (distance, yaw, pitch)
    cam_last,     \* client: the last Camera call and the distance before it
    occ_in,       \* occupancy: data, dims, value_range given to upload_volume
    occ_grid,     \* occupancy: the grid compute_occupancy_grid returned
    occ_pc,       \* occupancy: "call" before the call, "done" after it
    rc_in,        \* picker: ray_origin, ray_dir and the App fields raycast_volume reads
    rc_out,       \* picker: the Option<HoverInfo> raycast_volume returned
    rc_pc,        \* picker: "call" before the call, "done" after it
    app,          \* client: the fields of App the UI thread owns
    async_state,  \* client: AsyncState, the slots the fetch threads write
    threads,      \* client: the fetch threads that have not written yet
    shared_render_state, \* client: SharedRenderState (params, pending_volume)
    renderer,     \* client: the thread-local RENDERER of the paint callback
    gl,           \* client: the GL context the renderer draws with
    ui_pc,        \* client: where the frame loop stands
    hist          \* client: what has happened, for the checks to look back on

resampleVars == <<ds_data, ds_target, ds_result, ds_pc>>

serverVars == <<files, volumes, inflight>>

cameraVars == <<camera, cam_last>>

occupancyVars == <<occ_in, occ_grid, occ_pc>>

pickerVars == <<rc_in, rc_out, rc_pc>>

clientVars ==
    <<app, async_state, threads, shared_render_state, renderer, gl, ui_pc, hist>>

vars == <<ds_data, ds_target, ds_result, ds_pc, files, volumes, inflight,
          camera, cam_last, occ_in, occ_grid, occ_pc, rc_in, rc_out, rc_pc,
          app, async_state, threads, shared_render_state, renderer, gl, ui_pc, hist>>

----------------------------------------------------------------------------
(* Bounds of the model. *)

\* Every axis length 0..MaxDim is tried on every axis.
MaxDim == 2
\* Every target_size 1..MaxTarget is tried, besides the sizes the server uses.
MaxTarget == 4
\* Camera::rotate is followed while |yaw| and |pitch| stay within MaxAngle steps.
MaxAngle == 2
\* Camera::zoom is called with every multiple of a quarter unit up to MaxZoom
\* quarters, inwards and outwards, besides the far deltas of the scenario.
MaxZoom == 3
\* Every field of up to MaxOccCells voxels is tried with every choice of values.
MaxOccCells == 3

----------------------------------------------------------------------------
(* Arithmetic helpers. *)

MaxOf(a, b) == IF a >= b THEN a ELSE b

MinOf(a, b) == IF a <= b THEN a ELSE b

\* shape.iter().max().copied().unwrap_or(1): a shape always has three axes.
ShapeMax(shape) == MaxOf(MaxOf(shape[1], shape[2]), shape[3])

ShapeLen(shape) == shape[1] * shape[2] * shape[3]

----------------------------------------------------------------------------
(* ndarray::Array3<f32> in standard (row-major, last axis fastest) layout:  *)
(* a shape and the flat element sequence.                                   *)

\* ndarray checks an index on every axis and panics when one is out of bounds.
InBounds(a, x, y, z) == x < a.shape[1] /\ y < a.shape[2] /\ z < a.shape[3]

\* data[[x, y, z]]; -1 (no voxel value of the model) stands for the panic.
ArrAt(a, x, y, z) ==
    IF InBounds(a, x, y, z)
    THEN a.data[x * a.shape[2] * a.shape[3] + y * a.shape[3] + z + 1]
    ELSE -1

\* The (x, y, z) of the i-th element (0-based) of an array of this shape.
Unravel(i, shape) ==
    <<i \div (shape[2] * shape[3]), (i \div shape[3]) % shape[2], i % shape[3]>>

----------------------------------------------------------------------------
(* The contents of a dataset: a shape and a value pattern.                  *)

Patterns == {"ramp", "mod3", "zero"}

PatVal(pat, i) ==
    CASE pat = "ramp" -> i + 1
      [] pat = "mod3" -> i % 3
      [] OTHER        -> 0

Field(shape, pat) ==
    [shape |-> shape, data |-> [i \in 1..ShapeLen(shape) |-> PatVal(pat, i - 1)]]

----------------------------------------------------------------------------
(* HDF5Volume::downsample (hdf5_reader.rs:106-133).                         *)

\* A factor rounded up instead of down.
DownsampleFactorCeil(shape, target_size) ==
    MaxOf((ShapeMax(shape) + target_size - 1) \div target_size, 1)

DownsampleFactorOffByOne(shape, target_size) ==
    MaxOf(ShapeMax(shape) \div target_size, 1) + 1

\* let factor = (max_dim / target_size).max(1);
DownsampleFactor(shape, target_size) ==
    MaxOf(ShapeMax(shape) \div target_size, 1)

NewShapeCeil(shape, factor) ==
    <<(shape[1] + factor - 1) \div factor,
      (shape[2] + factor - 1) \div factor,
      (shape[3] + factor - 1) \div factor>>

\* let new_shape = [shape[0] / factor, shape[1] / factor, shape[2] / factor];
NewShape(shape, factor) ==
    <<shape[1] \div factor, shape[2] \div factor, shape[3] \div factor>>

SamplePointCentre(data, x, y, z, factor) ==
    ArrAt(data, x * factor + factor \div 2, y * factor + factor \div 2,
          z * factor + factor \div 2)

\* result[[x, y, z]] = data[[x * factor, y * factor, z * factor]];
SamplePoint(data, x, y, z, factor) ==
    ArrAt(data, x * factor, y * factor, z * factor)

Downsample(data, target_size) ==
    LET factor == DownsampleFactor(data.shape, target_size) IN
    IF factor = 1
    THEN data
    ELSE LET new_shape == NewShape(data.shape, factor) IN
         [shape |-> new_shape,
          data  |-> [i \in 1..ShapeLen(new_shape) |->
                       LET p == Unravel(i - 1, new_shape) IN
                       SamplePoint(data, p[1], p[2], p[3], factor)]]

----------------------------------------------------------------------------
(* The resampler on its own: downsample applied once to each input.         *)

\* Shapes beyond the small cube: the 8x8x8 scenario, shapes whose longest
\* axis exceeds the sizes the server asks for, and elongated ones.
SpecialShapes ==
    {<<8, 8, 8>>, <<32, 16, 8>>, <<64, 3, 2>>, <<130, 2, 1>>, <<1040, 2, 1>>}

Shapes ==
    {<<a, b, c>> : a \in 0..MaxDim, b \in 0..MaxDim, c \in 0..MaxDim}
        \cup SpecialShapes

\* 64 is the preview size (hdf5_reader.rs:70); 16 and 512 are the ends of the
\* range get_volume_at_resolution clamps to (routes.rs:120).
TargetSizes == (1..MaxTarget) \cup {16, 64, 512}

NoArray == [shape |-> <<0, 0, 0>>, data |-> <<>>]

ServerIdle ==
    /\ files = <<>>
    /\ volumes = <<>>
    /\ inflight = {}

\* Camera::default() (camera.rs:21-33), distances in hundredths, angles in
\* steps of rotation.
DefaultCamera == [distance |-> 200, yaw |-> 0, pitch |-> 0]

NoCall == [op |-> "none", delta |-> 0, before |-> 200]

CameraIdle ==
    /\ camera = DefaultCamera
    /\ cam_last = NoCall

NoUpload == [data |-> <<>>, dims |-> <<0, 0, 0>>, value_range |-> <<0, 0>>]

OccupancyIdle ==
    /\ occ_in = NoUpload
    /\ occ_grid = <<>>
    /\ occ_pc = "idle"

\* Option<HoverInfo>: None is NoHover.
NoHover == [some |-> FALSE]

\* Option<VolumeData> (app.rs:16-22, 111).
NoVolumeData == [some |-> FALSE]

\* Mat4::from_quat(Quat::IDENTITY), as its 3x3 block.
Identity3 == <<<<1, 0, 0>>, <<0, 1, 0>>, <<0, 0, 1>>>>

NoRay ==
    [ray_origin |-> <<0, 0, 0>>, ray_dir |-> <<0, 0, 0>>,
     cpu_volume_data |-> NoVolumeData, volume_rotation |-> Identity3]

NotRun ==
    [hover |-> NoHover, t_near |-> 0, t_far |-> 0, marched |-> FALSE,
     underflow |-> FALSE]

PickerIdle ==
    /\ rc_in = NoRay
    /\ rc_out = NotRun
    /\ rc_pc = "idle"

\* RENDERER before the first paint callback: None (app.rs:698-700).
NoRenderer == [some |-> FALSE]

\* The GL context as egui_glow hands it to a paint callback: blending on,
\* face culling and depth test off, no object of the renderer yet.  objects
\* are the live objects by name; names are never reused; stale_deletes
\* counts the delete calls on names that are not live; draws counts the
\* draw_arrays calls and last_draw holds the arguments of the last one.
FreshGl ==
    [next |-> 1, objects |-> {}, stale_deletes |-> 0,
     blend |-> TRUE, cull_face |-> FALSE, depth_test |-> FALSE,
     draws |-> [volume |-> 0, axes |-> 0],
     last_draw |-> [some |-> FALSE]]

\* RenderParams::default() (app.rs:53-67).  view stands for the fields
\* render_viewport writes from the camera and the controls: camera_position,
\* view_proj_matrix, aspect_ratio, volume_rotation, step_size and opacity.
DefaultParams ==
    [view |-> 0, value_range |-> <<0, 1>>, has_volume |-> FALSE, show_axes |-> TRUE]

\* SharedRenderState::default() (app.rs:75-82).
DefaultShared == [params |-> DefaultParams, pending_volume |-> NoVolumeData]

\* HoverInfo::default() (app.rs:24-37, 208).
DefaultHover ==
    [valid |-> FALSE, position |-> <<0, 0, 0>>, value |-> 0,
     normalized |-> <<0, 1>>, voxel |-> <<0, 0, 0>>]

\* The fields of App that App::new sets (app.rs:190-209), before
\* fetch_volumes; view is the camera and the controls of the viewport.
NewApp ==
    [volumes |-> {}, selected_volume |-> "none", loaded_volume |-> "none",
     loading |-> TRUE, loading_volume |-> FALSE, error |-> "none",
     has_volume |-> FALSE, cpu_volume_data |-> NoVolumeData,
     view |-> 0, show_axes |-> TRUE, hover_info |-> DefaultHover]

\* AsyncState::default() (app.rs:9-14).
DefaultAsync == [volumes |-> [some |-> FALSE], volume_data |-> [some |-> FALSE]]

\* What the checks look back on: the volumes handed to upload_volume, the
\* volumes a poll overwrote in the slot, the params as the last frame left
\* them, the numbers of fetches, of frames (or of calls) and of destroy
\* calls, the last call made on the renderer, the panic that ended the run,
\* whether the last frame called raycast_volume and what it returned,
\* whether a volume-data fetch has failed.
NoHistory ==
    [uploads |-> <<>>, overwritten |-> {}, snapshot |-> DefaultParams,
     fetches |-> 0, frames |-> 0, destroys |-> 0, call |-> "none",
     panic |-> "none", raycast |-> [ran |-> FALSE, hover |-> NoHover],
     failed |-> FALSE]

ClientIdle ==
    /\ app = NewApp
    /\ async_state = DefaultAsync
    /\ threads = {}
    /\ shared_render_state = DefaultShared
    /\ renderer = NoRenderer
    /\ gl = FreshGl
    /\ ui_pc = "idle"
    /\ hist = NoHistory

InitResample ==
    /\ ServerIdle
    /\ CameraIdle
    /\ OccupancyIdle
    /\ PickerIdle
    /\ ClientIdle
    /\ ds_data \in {Field(s, p) : s \in Shapes, p \in Patterns}
    /\ ds_target \in TargetSizes
    /\ ds_result = NoArray
    /\ ds_pc = "call"

CallDownsample ==
    /\ ds_pc = "call"
    /\ ds_result' = Downsample(ds_data, ds_target)
    /\ ds_pc' = "done"
    /\ UNCHANGED <<ds_data, ds_target>>
    /\ UNCHANGED <<serverVars, cameraVars, occupancyVars, pickerVars, clientVars>>

NextResample == CallDownsample

SpecResample == InitResample /\ [][NextResample]_vars

----------------------------------------------------------------------------
(* f32 values and their serialisation.                                      *)

\* Stands for f32::INFINITY: above every voxel value of the model.
F32_INFINITY == 1073741824

F32Min(a, b) == IF b < a THEN b ELSE a

F32Max(a, b) == IF b > a THEN b ELSE a

\* data.iter().cloned().fold(f32::INFINITY, f32::min) over data[lo..hi]; the
\* fold is evaluated by halves (min is associative), which keeps it shallow.
RECURSIVE FoldMin(_, _, _)
FoldMin(data, lo, hi) ==
    IF lo > hi THEN F32_INFINITY
    ELSE IF lo = hi THEN F32Min(F32_INFINITY, data[lo])
    ELSE LET mid == (lo + hi) \div 2 IN
         F32Min(FoldMin(data, lo, mid), FoldMin(data, mid + 1, hi))

\* data.iter().cloned().fold(f32::NEG_INFINITY, f32::max) over data[lo..hi].
RECURSIVE FoldMax(_, _, _)
FoldMax(data, lo, hi) ==
    IF lo > hi THEN -F32_INFINITY
    ELSE IF lo = hi THEN F32Max(-F32_INFINITY, data[lo])
    ELSE LET mid == (lo + hi) \div 2 IN
         F32Max(FoldMax(data, lo, mid), FoldMax(data, mid + 1, hi))

RECURSIVE Log2Floor(_)
Log2Floor(v) == IF v < 2 THEN 0 ELSE 1 + Log2Floor(v \div 2)

\* The IEEE-754 single-precision bit pattern of an integer 0 <= v < 2^24:
\* sign 0, biased exponent 127 + e, and the 23 fraction bits of v / 2^e.
F32Bits(v) ==
    IF v = 0 THEN 0
    ELSE LET e == Log2Floor(v) IN
         (127 + e) * 8388608 + (v - 2 ^ e) * 2 ^ (23 - e)

\* f32::to_le_bytes: byte k (0-based) of the little-endian encoding.
LeByte(bits, k) == (bits \div (256 ^ k)) % 256

\* HDF5Volume::to_bytes (hdf5_reader.rs:136-143).  The arrays it is given are
\* in standard layout, so as_slice() is Some and every element is encoded.
ToBytes(arr) ==
    [k \in 1..(4 * Len(arr.data)) |->
        LeByte(F32Bits(arr.data[(k - 1) \div 4 + 1]), (k - 1) % 4)]

----------------------------------------------------------------------------
(* The samples directory and the HDF5 files in it.                          *)

Ids == {"big", "small", "bad", "ghost"}

\* Files of the samples directory; no file belongs to the id "ghost".
Paths == {"samples/big.h5", "samples/small.h5", "samples/bad.h5"}

\* path.file_stem() (hdf5_reader.rs:84-88).
FileStem(path) ==
    CASE path = "samples/big.h5"   -> "big"
      [] path = "samples/small.h5" -> "small"
      [] path = "samples/bad.h5"   -> "bad"

\* What the dataset of a file holds when it can be read.
FileShape(path) ==
    CASE path = "samples/big.h5"   -> <<1024, 2, 2>>
      [] path = "samples/small.h5" -> <<32, 2, 2>>
      [] path = "samples/bad.h5"   -> <<2, 2, 2>>

FileData(path) == Field(FileShape(path), "ramp")

\* A file is "ok", or "missing" (File::open fails), or has "nodataset" (none
\* of target, volume, data), or is "unreadable" (dataset.read fails).
FileStates == {"ok", "missing", "nodataset", "unreadable"}

Ok(v) == [ok |-> TRUE, value |-> v]

Err(msg) == [ok |-> FALSE, error |-> msg]

\* The Display of HDF5Error (hdf5_reader.rs:7-15).
OpenError == "HDF5 error: unable to open file"

ReadError == "HDF5 error: unable to read dataset"

DatasetNotFound == "Dataset not found: target, volume, or data"

\* File::open, the dataset lookup and dataset.read, as the three readers do
\* them in this order (hdf5_reader.rs:46-63, 155-162, 175-182).
ReadDataset(state, path) ==
    CASE state = "missing"    -> Err(OpenError)
      [] state = "nodataset"  -> Err(DatasetNotFound)
      [] state = "unreadable" -> Err(ReadError)
      [] OTHER                -> Ok(FileData(path))

\* HDF5Volume::read_volume_sync from the read of the dataset on
\* (hdf5_reader.rs:59-102), with the HDF5Volume that open makes of it.
ReadVolumeSync(data, path) ==
    LET low_res == Downsample(data, 64)
        low_res_bytes == ToBytes(low_res)
    IN [info |-> [id |-> FileStem(path),
                  name |-> FileStem(path),
                  dimensions |-> data.shape,
                  low_res_dimensions |-> low_res.shape,
                  low_res_size |-> Len(low_res_bytes),
                  full_res_size |-> Len(data.data) * 4,
                  value_range |-> <<FoldMin(data.data, 1, Len(data.data)),
                                    FoldMax(data.data, 1, Len(data.data))>>],
        path |-> path,
        low_res_cache |-> low_res_bytes]

\* HDF5Volume::read_volume_sync and HDF5Volume::open (hdf5_reader.rs:27-103).
OpenVolume(state, path) ==
    LET r == ReadDataset(state, path) IN
    IF ~r.ok THEN r ELSE Ok(ReadVolumeSync(r.value, path))

\* The store on its own: AppState::new (state.rs:15-41) on a directory
\* whose one file, small.h5, holds the dataset ds_data.
CallAppStateNew ==
    /\ ds_pc = "call"
    /\ ds_pc' = "loaded"
    /\ volumes' = [id \in {"small"} |-> ReadVolumeSync(ds_data, "samples/small.h5")]
    /\ UNCHANGED <<ds_data, ds_target, ds_result, files, inflight>>
    /\ UNCHANGED <<cameraVars, occupancyVars, pickerVars, clientVars>>

SpecStore == InitResample /\ [][CallAppStateNew]_vars

\* AppState::new (state.rs:15-41): every file that opens is inserted under
\* its id, the others are skipped with a warning.
AppStateNew(fs) ==
    LET loaded == {p \in Paths : OpenVolume(fs[p], p).ok} IN
    [id \in {FileStem(p) : p \in loaded} |->
        OpenVolume(fs[CHOOSE p \in loaded : FileStem(p) = id],
                   CHOOSE p \in loaded : FileStem(p) = id).value]

GetVolumeAlways(id) ==
    IF id \in DOMAIN volumes THEN Ok(volumes[id])
    ELSE Ok(volumes[CHOOSE k \in DOMAIN volumes : TRUE])

\* AppState::get_volume (state.rs:49-51): Ok is Some, Err is None.
GetVolume(id) ==
    IF id \in DOMAIN volumes THEN Ok(volumes[id]) ELSE Err("None")

----------------------------------------------------------------------------
(* The request handlers (routes.rs).                                        *)

Digits == <<"0", "1", "2", "3", "4", "5", "6", "7", "8", "9">>

\* format!("{}", n) as a sequence of characters.
RECURSIVE FormatDec(_)
FormatDec(n) ==
    IF n < 10 THEN <<Digits[n + 1]>>
    ELSE FormatDec(n \div 10) \o <<Digits[(n % 10) + 1]>>

\* format!("{},{},{}", dims[0], dims[1], dims[2]) (routes.rs:133).
FormatDims(dims) ==
    FormatDec(dims[1]) \o <<",">> \o FormatDec(dims[2]) \o <<",">>
        \o FormatDec(dims[3])

OctetStream == "application/octet-stream"

NoHeader == <<>>

\* A binary 200 response; x_volume_dims is NoHeader where the handler sets none.
Binary(bytes, dims_header) ==
    [status |-> 200, kind |-> "binary", content_type |-> OctetStream,
     x_volume_dims |-> dims_header, body |-> bytes]

\* Json(VolumeMetadataResponse { info }) (routes.rs:47-49).
InfoJson(info) ==
    [status |-> 200, kind |-> "info", content_type |-> "application/json",
     x_volume_dims |-> NoHeader, body |-> [info |-> info]]

\* (status, Json(ErrorResponse { error })).
ErrorJson(status, msg) ==
    [status |-> status, kind |-> "error", content_type |-> "application/json",
     x_volume_dims |-> NoHeader, body |-> [error |-> msg]]

NotFound(id) == ErrorJson(404, "Volume '" \o id \o "' not found")

ReadFailed(e) == ErrorJson(500, "Failed to read volume: " \o e)

NoResponse ==
    [status |-> 0, kind |-> "none", content_type |-> "",
     x_volume_dims |-> NoHeader, body |-> <<>>]

NoClamp(resolution) == resolution

\* resolution.clamp(16, 512) (routes.rs:120).
ClampResolution(resolution) == MinOf(MaxOf(resolution, 16), 512)

\* The resolutions a client asks for.
Resolutions == {1, 16, 17, 512, 100000}

\* A request whose handler has returned (or panicked) without a blocking read.
Answered(op, id, resolution, resp) ==
    [op |-> op, id |-> id, resolution |-> resolution, target |-> 0,
     path |-> "", phase |-> "done", read_started |-> FALSE, resp |-> resp]

\* A request whose handler awaits the spawn_blocking task reading path.
Reading(op, id, resolution, target, path) ==
    [op |-> op, id |-> id, resolution |-> resolution, target |-> target,
     path |-> path, phase |-> "reading", read_started |-> TRUE,
     resp |-> NoResponse]

\* The handlers share nothing but the immutable AppState, so the model lets
\* the server take one request at a time; the files change under it at any
\* moment, also between a handler's start and the end of its blocking task.
Accepting == inflight = {}

\* get_volume_info (routes.rs:42-57).
GetVolumeInfo(id) ==
    /\ Accepting
    /\ LET v == GetVolume(id) IN
       inflight' = inflight \cup
           {Answered("info", id, 0,
                     IF v.ok THEN InfoJson(v.value.info) ELSE NotFound(id))}
    /\ UNCHANGED <<files, volumes>>

\* get_volume_low (routes.rs:60-84); get_low_res_data returns the cache and
\* never fails (hdf5_reader.rs:146-148).
GetVolumeLow(id) ==
    /\ Accepting
    /\ LET v == GetVolume(id) IN
       inflight' = inflight \cup
           {Answered("low", id, 0,
                     IF v.ok THEN Binary(v.value.low_res_cache, NoHeader)
                     ELSE NotFound(id))}
    /\ UNCHANGED <<files, volumes>>

\* get_volume_full (routes.rs:87-111) up to the await of the blocking task
\* of get_full_res_data (hdf5_reader.rs:151-154).
GetVolumeFull(id) ==
    /\ Accepting
    /\ LET v == GetVolume(id) IN
       inflight' = inflight \cup
           {IF v.ok THEN Reading("full", id, 0, 0, v.value.path)
            ELSE Answered("full", id, 0, NotFound(id))}
    /\ UNCHANGED <<files, volumes>>

\* get_volume_at_resolution (routes.rs:115-151) up to the await of the
\* blocking task of get_data_at_resolution (hdf5_reader.rs:171-174).
GetVolumeAtResolution(id, requested) ==
    /\ Accepting
    /\ LET resolution == ClampResolution(requested)
           v == GetVolume(id)
       IN inflight' = inflight \cup
           {IF v.ok THEN Reading("at", id, requested, resolution, v.value.path)
            ELSE Answered("at", id, requested, NotFound(id))}
    /\ UNCHANGED <<files, volumes>>

ResampledNativeDims(data, target_size) ==
    [bytes |-> ToBytes(Downsample(data, target_size)), dims |-> data.shape]

\* The closure of get_data_at_resolution (hdf5_reader.rs:182-186).
Resampled(data, target_size) ==
    LET resampled == Downsample(data, target_size) IN
    [bytes |-> ToBytes(resampled), dims |-> resampled.shape]

\* The closure of get_full_res_data (hdf5_reader.rs:154-164) on a file in
\* state fstate, and the rest of get_volume_full (routes.rs:92-102).
FullResponse(path, fstate) ==
    LET r == ReadDataset(fstate, path) IN
    IF r.ok THEN Binary(ToBytes(r.value), NoHeader) ELSE ReadFailed(r.error)

\* The closure of get_data_at_resolution (hdf5_reader.rs:174-187) on a file
\* in state fstate, and the rest of get_volume_at_resolution
\* (routes.rs:123-142).
AtResolutionResponse(path, target_size, fstate) ==
    LET r == ReadDataset(fstate, path) IN
    IF r.ok
    THEN LET got == Resampled(r.value, target_size) IN
         Binary(got.bytes, FormatDims(got.dims))
    ELSE ReadFailed(r.error)

\* The blocking task of a request runs to its end, the handler resumes and
\* answers.
BlockingTaskReturns(req) ==
    /\ req \in inflight
    /\ req.phase = "reading"
    /\ LET resp == IF req.op = "full"
                   THEN FullResponse(req.path, files[req.path])
                   ELSE AtResolutionResponse(req.path, req.target, files[req.path])
       IN inflight' = (inflight \ {req}) \cup
                          {[req EXCEPT !.phase = "done", !.resp = resp]}
    /\ UNCHANGED <<files, volumes>>

\* The blocking task does not run to its end (its closure panics, or the
\* runtime cancels it): the JoinHandle yields Err(JoinError), and
\* `.await.unwrap()` (hdf5_reader.rs:165-166, 188-189) panics in the handler.
\* The request gets no response; the connection is dropped.
BlockingTaskFails(req) ==
    /\ req \in inflight
    /\ req.phase = "reading"
    /\ inflight' = (inflight \ {req}) \cup {[req EXCEPT !.phase = "panicked"]}
    /\ UNCHANGED <<files, volumes>>

\* The client has its answer (or its dropped connection).
ConnectionEnds(req) ==
    /\ req \in inflight
    /\ req.phase # "reading"
    /\ inflight' = inflight \ {req}
    /\ UNCHANGED <<files, volumes>>

\* The samples directory changes under the running server.
FileChanges(path, state) ==
    /\ files[path] # state
    /\ files' = [files EXCEPT ![path] = state]
    /\ UNCHANGED <<volumes, inflight>>

ResampleIdle ==
    /\ ds_data = NoArray
    /\ ds_target = 1
    /\ ds_result = NoArray
    /\ ds_pc = "idle"

\* The server after AppState::new("samples"): big.h5 loads, small.h5 loads
\* when it is in order, bad.h5 is there and does not load.
Init ==
    /\ ResampleIdle
    /\ CameraIdle
    /\ OccupancyIdle
    /\ PickerIdle
    /\ ClientIdle
    /\ files \in [Paths -> FileStates]
    /\ files["samples/big.h5"] = "ok"
    /\ files["samples/bad.h5"] # "ok"
    /\ volumes = AppStateNew(files)
    /\ inflight = {}

Next ==
    \/ /\ \/ \E id \in Ids : GetVolumeInfo(id)
          \/ \E id \in Ids : GetVolumeLow(id)
          \/ \E id \in Ids : GetVolumeFull(id)
          \/ \E id \in Ids : \E r \in Resolutions : GetVolumeAtResolution(id, r)
          \/ \E req \in inflight : BlockingTaskReturns(req)
          \/ \E req \in inflight : BlockingTaskFails(req)
          \/ \E req \in inflight : ConnectionEnds(req)
          \/ \E p \in Paths : \E st \in FileStates : FileChanges(p, st)
       /\ UNCHANGED <<resampleVars, cameraVars, occupancyVars, pickerVars, clientVars>>

Spec == Init /\ [][Next]_vars

----------------------------------------------------------------------------
(* Camera (client/src/renderer/camera.rs).  Distances are in hundredths of  *)
(* a unit: 0.5 is 50, 2.0 is 200, 10.0 is 1000.                             *)

ClampF32(v, lo, hi) == IF v < lo THEN lo ELSE IF v > hi THEN hi ELSE v

ZoomedTowards(distance, delta) == ClampF32(distance + delta, 50, 1000)

\* self.distance = (self.distance - delta).clamp(0.5, 10.0);
Zoomed(distance, delta) == ClampF32(distance - delta, 50, 1000)

\* The deltas zoom is called with: the scenario's 20.0 and -20.0, and the
\* multiples of 0.25 up to MaxZoom quarters.
ZoomDeltas == {2000, -2000} \cup {25 * k : k \in (-MaxZoom)..MaxZoom}

\* Camera::zoom (camera.rs:66-68).
Zoom(delta) ==
    /\ camera' = [camera EXCEPT !.distance = Zoomed(camera.distance, delta)]
    /\ cam_last' = [op |-> "zoom", delta |-> delta, before |-> camera.distance]

\* Camera::rotate (camera.rs:60-63), by whole steps either way.
Rotate(delta_yaw, delta_pitch) ==
    /\ camera.yaw + delta_yaw \in (-MaxAngle)..MaxAngle
    /\ camera.pitch + delta_pitch \in (-MaxAngle)..MaxAngle
    /\ camera' = [camera EXCEPT !.yaw = camera.yaw + delta_yaw,
                                !.pitch = camera.pitch + delta_pitch]
    /\ cam_last' = [op |-> "rotate", delta |-> 0, before |-> camera.distance]

InitCamera ==
    /\ ResampleIdle
    /\ ServerIdle
    /\ OccupancyIdle
    /\ PickerIdle
    /\ ClientIdle
    /\ camera = DefaultCamera
    /\ cam_last = NoCall

NextCamera ==
    /\ \/ \E delta \in ZoomDeltas : Zoom(delta)
       \/ \E dy \in {-1, 0, 1} : \E dp \in {-1, 0, 1} : Rotate(dy, dp)
    /\ UNCHANGED <<resampleVars, serverVars, occupancyVars, pickerVars, clientVars>>

SpecCamera == InitCamera /\ [][NextCamera]_vars

----------------------------------------------------------------------------
(* VolumeRenderer::compute_occupancy_grid (volume_renderer.rs:266-304).     *)

OCCUPANCY_GRID_SIZE == 16

\* value > threshold, threshold = value_range[0] + (value_range[1] -
\* value_range[0]) * 0.02; both sides multiplied by 50, which is exact for
\* the integer values of the model.
AboveThreshold(value, value_range) ==
    50 * value > 50 * value_range[1] + (value_range[2] - value_range[1])

CellOfWholeCellSize(v, dim) ==
    MinOf(v \div MaxOf(dim \div OCCUPANCY_GRID_SIZE, 1), OCCUPANCY_GRID_SIZE - 1)

\* ((x as f32) / cell_size).min((grid_size - 1) as f32) as usize, with
\* cell_size = (dim as f32) / (grid_size as f32).
CellOf(v, dim) ==
    MinOf((v * OCCUPANCY_GRID_SIZE) \div dim, OCCUPANCY_GRID_SIZE - 1)

OccIdxXFastest(ox, oy, oz) ==
    oz * OCCUPANCY_GRID_SIZE * OCCUPANCY_GRID_SIZE + oy * OCCUPANCY_GRID_SIZE + ox

\* let occ_idx = ox * grid_size * grid_size + oy * grid_size + oz;
OccIdx(ox, oy, oz) ==
    ox * OCCUPANCY_GRID_SIZE * OCCUPANCY_GRID_SIZE + oy * OCCUPANCY_GRID_SIZE + oz

\* The grid as a sequence: occupancy[k] of the program is element k + 1.
ComputeOccupancyGrid(data, dims, value_range) ==
    LET voxels == {<<x, y, z>> \in (0..(dims[1] - 1)) \X (0..(dims[2] - 1))
                                      \X (0..(dims[3] - 1)) :
                      \* if vol_idx >= data.len() { continue; }
                      x * dims[2] * dims[3] + y * dims[3] + z < Len(data)}
        marked == {OccIdx(CellOf(p[1], dims[1]), CellOf(p[2], dims[2]),
                          CellOf(p[3], dims[3])) :
                      p \in {q \in voxels :
                                AboveThreshold(
                                    data[q[1] * dims[2] * dims[3] + q[2] * dims[3]
                                         + q[3] + 1],
                                    value_range)}}
    IN [k \in 1..(OCCUPANCY_GRID_SIZE * OCCUPANCY_GRID_SIZE * OCCUPANCY_GRID_SIZE)
           |-> IF (k - 1) \in marked THEN 1 ELSE 0]

\* The values small fields are filled with.
OccValues == {0, 2, 3, 100}

SmallOccShapes ==
    {s \in (1..MaxOccCells) \X (1..MaxOccCells) \X (1..MaxOccCells) :
        ShapeLen(s) <= MaxOccCells}

LargeOccShapes ==
    {<<0, 2, 2>>, <<4, 4, 4>>, <<16, 16, 1>>, <<17, 3, 2>>, <<5, 3, 2>>,
     <<40, 1, 2>>, <<33, 2, 1>>}

\* What upload_volume is given (app.rs:714-720): the data of a fetch with
\* the dimensions and the value range the server computed for that field.
Upload(field) ==
    [data |-> field.data, dims |-> field.shape,
     value_range |-> <<FoldMin(field.data, 1, Len(field.data)),
                       FoldMax(field.data, 1, Len(field.data))>>]

OccInputs ==
    {Upload([shape |-> s, data |-> d]) :
        <<s, d>> \in UNION {{s2} \X [1..ShapeLen(s2) -> OccValues] :
                               s2 \in SmallOccShapes}}
        \cup {Upload(Field(s, p)) : s \in LargeOccShapes, p \in Patterns}

InitOccupancy ==
    /\ ResampleIdle
    /\ ServerIdle
    /\ CameraIdle
    /\ PickerIdle
    /\ ClientIdle
    /\ occ_in \in OccInputs
    /\ occ_grid = <<>>
    /\ occ_pc = "call"

CallComputeOccupancyGrid ==
    /\ occ_pc = "call"
    /\ occ_grid' = ComputeOccupancyGrid(occ_in.data, occ_in.dims, occ_in.value_range)
    /\ occ_pc' = "done"
    /\ UNCHANGED occ_in
    /\ UNCHANGED <<resampleVars, serverVars, cameraVars, pickerVars, clientVars>>

NextOccupancy == CallComputeOccupancyGrid

SpecOccupancy == InitOccupancy /\ [][NextOccupancy]_vars

----------------------------------------------------------------------------
(* The picker: App::raycast_volume (client/src/app.rs:398-461).             *)
(*                                                                         *)
(* Lengths are exact rationals on three integer grids: a ray origin is in  *)
(* hundredths of the cube's edge, a ray direction in fifths (so that the   *)
(* unit vectors (3/5, 4/5, 0) are exact), a ray parameter t in units of    *)
(* 1/1200 and a position in units of 1/6000.  A division by a zero         *)
(* direction component gives the IEEE-754 infinities and, for 0 * inf, NaN.*)

\* The stand-in of the f32 NaN, next to F32_INFINITY.
F32_NAN == 1073741825

\* step_size = 0.01 (app.rs:417) in units of 1/1200.
PickStep == 12

\* 1.0 in position units.
PosOne == 6000

\* Stands for u32::MAX, what 0u32 - 1 wraps to: above every index of the model.
U32_MAX == 2147483647

\* (bound - origin) * (1.0 / dir) for one axis (app.rs:404-406), bound and
\* origin in hundredths, dir in fifths, the product in units of 1/1200.
SlabT(bound, origin, dir) ==
    IF dir # 0 THEN ((bound - origin) * 60) \div dir
    ELSE IF bound = origin THEN F32_NAN
    ELSE IF bound > origin THEN F32_INFINITY
    ELSE 0 - F32_INFINITY

\* f32::min and f32::max, which return the other operand when one is NaN;
\* Vec3::min and Vec3::max apply them to each component (app.rs:407-410).
MinNum(a, b) == IF a = F32_NAN THEN b ELSE IF b = F32_NAN THEN a ELSE MinOf(a, b)

MaxNum(a, b) == IF a = F32_NAN THEN b ELSE IF b = F32_NAN THEN a ELSE MaxOf(a, b)

\* t_near without the final .max(0.0).
TNearUnfloored(o, d) ==
    LET t_min == [a \in 1..3 |-> MinNum(SlabT(0, o[a], d[a]), SlabT(100, o[a], d[a]))]
    IN MaxNum(MaxNum(t_min[1], t_min[2]), t_min[3])

\* t_near and t_far (app.rs:405-410); neither is NaN for a ray with a
\* direction, so that > and < on them are the comparisons of f32.
TNear(o, d) ==
    LET t_min == [a \in 1..3 |-> MinNum(SlabT(0, o[a], d[a]), SlabT(100, o[a], d[a]))]
    IN MaxNum(MaxNum(MaxNum(t_min[1], t_min[2]), t_min[3]), 0)

TFar(o, d) ==
    LET t_max == [a \in 1..3 |-> MaxNum(SlabT(0, o[a], d[a]), SlabT(100, o[a], d[a]))]
    IN MinNum(MinNum(t_max[1], t_max[2]), t_max[3])

\* ray_origin + ray_dir * t (app.rs:422), in position units.
PosAt(o, d, t) == [a \in 1..3 |-> o[a] * 60 + d[a] * t]

\* pos brought into the unrotated field (app.rs:425-428).  The matrix
\* Mat4::from_quat(volume_rotation) is held as its 3x3 rotation block, rows
\* first; transform_point3 multiplies a matrix by the column vector, here
\* the transpose of the rotation.
RotatedPos(rotation, pos) ==
    LET centered == [a \in 1..3 |-> pos[a] - PosOne \div 2]
        rot_inv == [i \in 1..3 |-> [j \in 1..3 |-> rotation[j][i]]]
        rotated == [i \in 1..3 |-> rot_inv[i][1] * centered[1]
                                      + rot_inv[i][2] * centered[2]
                                      + rot_inv[i][3] * centered[3]]
    IN [a \in 1..3 |-> rotated[a] + PosOne \div 2]

\* ((p * dim as f32) as u32).min(dim - 1) for each axis (app.rs:436-438).
VoxelOf(p, dims) ==
    [a \in 1..3 |-> MinOf((p[a] * dims[a]) \div PosOne,
                          IF dims[a] = 0 THEN U32_MAX ELSE dims[a] - 1)]

\* (value - min) / (max - min) as numerator and denominator (app.rs:443).
Normalized(value, value_range) ==
    <<value - value_range[1], value_range[2] - value_range[1]>>

\* normalized > threshold, threshold = 0.05 (app.rs:419, 445): a quotient by
\* zero is NaN for 0/0, else an infinity of the numerator's sign.
AboveThresholdAtAll(n) == n[1] >= 0

AbovePickThreshold(n) ==
    IF n[2] > 0 THEN n[1] * 20 > n[2]
    ELSE IF n[2] < 0 THEN n[1] * 20 < n[2]
    ELSE n[1] > 0

SomeVolumeData(data, dims, value_range) ==
    [some |-> TRUE, data |-> data, dims |-> dims, value_range |-> value_range]

\* The body of the while loop for one t: the hit found at t, or NoHover
\* (app.rs:422-455).
SampleAt(in, t) ==
    LET vol_data == in.cpu_volume_data
        dims == vol_data.dims
        rotated_pos == RotatedPos(in.volume_rotation, PosAt(in.ray_origin, in.ray_dir, t))
        v == VoxelOf(rotated_pos, dims)
        idx == v[1] * dims[2] * dims[3] + v[2] * dims[3] + v[3]
    IN IF /\ \A a \in 1..3 : rotated_pos[a] >= 0 /\ rotated_pos[a] <= PosOne
          /\ idx < Len(vol_data.data)
          /\ AbovePickThreshold(Normalized(vol_data.data[idx + 1], vol_data.value_range))
       THEN [some |-> TRUE, valid |-> TRUE, position |-> rotated_pos,
             value |-> vol_data.data[idx + 1],
             normalized |-> Normalized(vol_data.data[idx + 1], vol_data.value_range),
             voxel |-> v]
       ELSE NoHover

\* while t < t_far { .. t += step_size } and the None after it
\* (app.rs:421-460), one iteration after the other.
RECURSIVE MarchStep(_, _, _)
MarchStep(in, t, t_far) ==
    IF ~(t < t_far) THEN NoHover
    ELSE IF SampleAt(in, t).some THEN SampleAt(in, t)
    ELSE MarchStep(in, t + PickStep, t_far)

\* The same loop (app.rs:421-460) entered at t: when none of its next
\* sixteen iterations returns it is the loop entered at the seventeenth.
RECURSIVE March(_, _, _)
March(in, t, t_far) ==
    IF ~(t < t_far) THEN NoHover
    ELSE IF \E k \in 0..15 : /\ t + k * PickStep < t_far
                             /\ SampleAt(in, t + k * PickStep).some
    THEN MarchStep(in, t, t_far)
    ELSE March(in, t + 16 * PickStep, t_far)

\* raycast_volume with the interval it computed: marched tells whether the
\* early return of app.rs:412-414 was passed, underflow whether dims[a] - 1
\* (app.rs:436-438) was computed for a dims[a] of 0 at a sample the march
\* reached: that u32 subtraction panics in a build with overflow checks and
\* wraps to u32::MAX in one without, which is the value hover is computed
\* with.
RaycastVolume(in) ==
    IF ~in.cpu_volume_data.some
    THEN [hover |-> NoHover, t_near |-> 0, t_far |-> 0, marched |-> FALSE,
          underflow |-> FALSE]
    ELSE LET t_near == TNear(in.ray_origin, in.ray_dir)
             t_far == TFar(in.ray_origin, in.ray_dir)
             samples == {t_near + k * PickStep :
                            k \in 0..((t_far - t_near) \div PickStep)}
             reached(t) == t < t_far /\ \A u \in samples : u < t => ~SampleAt(in, u).some
             inside(t) ==
                 LET p == RotatedPos(in.volume_rotation,
                                     PosAt(in.ray_origin, in.ray_dir, t))
                 IN \A a \in 1..3 : p[a] >= 0 /\ p[a] <= PosOne
         IN IF t_near > t_far
            THEN [hover |-> NoHover, t_near |-> t_near, t_far |-> t_far,
                  marched |-> FALSE, underflow |-> FALSE]
            ELSE [hover |-> March(in, t_near, t_far), t_near |-> t_near,
                  t_far |-> t_far, marched |-> TRUE,
                  underflow |->
                      /\ \E a \in 1..3 : in.cpu_volume_data.dims[a] = 0
                      /\ \E t \in samples : reached(t) /\ inside(t)]

\* Ray origins, per axis, in hundredths: outside, on a face, inside.
OriginCoords == {-100, 0, 30, 50, 100}

\* Unit directions in fifths: along an axis, and (3/5, 4/5) in a plane.
RayDirs ==
    {d \in {-5, -4, -3, 0, 3, 4, 5} \X {-5, -4, -3, 0, 3, 4, 5} \X {-5, -4, -3, 0, 3, 4, 5} :
        d[1] * d[1] + d[2] * d[2] + d[3] * d[3] = 25}

\* No rotation, and the quarter turns about z in both senses.
Rotations ==
    {Identity3,
     <<<<0, -1, 0>>, <<1, 0, 0>>, <<0, 0, 1>>>>,
     <<<<0, 1, 0>>, <<-1, 0, 0>>, <<0, 0, 1>>>>}

\* A 5x5x5 field that is zero but for voxel (2,2,2), which holds the maximum.
SingleVoxelField ==
    SomeVolumeData([k \in 1..125 |-> IF k = 63 THEN 100 ELSE 0], <<5, 5, 5>>, <<0, 100>>)

\* The last but one is what the fetch of an empty dataset delivers: no
\* voxel, dimensions 0x2x2, value_range [inf, -inf].
PickFields ==
    {SingleVoxelField,
     SomeVolumeData(<<0, 3, 5, 6, 100, 0>>, <<2, 1, 3>>, <<0, 100>>),
     SomeVolumeData(<<7>>, <<1, 1, 1>>, <<7, 7>>),
     SomeVolumeData(<<>>, <<0, 2, 2>>, <<F32_INFINITY, 0 - F32_INFINITY>>),
     NoVolumeData}

InitPicker ==
    /\ ResampleIdle
    /\ ServerIdle
    /\ CameraIdle
    /\ OccupancyIdle
    /\ ClientIdle
    /\ rc_in \in [ray_origin : OriginCoords \X OriginCoords \X OriginCoords,
                  ray_dir : RayDirs,
                  cpu_volume_data : PickFields,
                  volume_rotation : Rotations]
    /\ rc_out = NotRun
    /\ rc_pc = "call"

CallRaycastVolume ==
    /\ rc_pc = "call"
    /\ rc_out' = RaycastVolume(rc_in)
    /\ rc_pc' = "done"
    /\ UNCHANGED rc_in
    /\ UNCHANGED <<resampleVars, serverVars, cameraVars, occupancyVars, clientVars>>

SpecPicker == InitPicker /\ [][CallRaycastVolume]_vars

----------------------------------------------------------------------------
(* The renderer: VolumeRenderer (client/src/renderer/volume_renderer.rs)    *)
(* and the paint callback that owns it (client/src/app.rs:695-747).         *)
(*                                                                         *)
(* A GL object is a record of its name, its kind and, for a texture, the   *)
(* VolumeData it was filled from: the occupancy texture holds               *)
(* compute_occupancy_grid of that data (modelled under SpecOccupancy).     *)
(* Shader objects, uniforms and bindings are left out.                      *)

\* The renderer calls made in a run of SpecRenderer are at most MaxCalls.
MaxCalls == 4

\* gl.create_*(): a new object under the next free name.
GlCreate(g, kind, of) ==
    [g EXCEPT !.next = @ + 1,
              !.objects = @ \cup {[name |-> g.next, kind |-> kind, of |-> of]}]

\* gl.delete_*(name).
GlDelete(g, name) ==
    IF \E o \in g.objects : o.name = name
    THEN [g EXCEPT !.objects = {o \in @ : o.name # name}]
    ELSE [g EXCEPT !.stale_deletes = @ + 1]

\* The steps of VolumeRenderer::new that can fail, in order; a failure
\* panics (volume_renderer.rs:48-50, 55-57, 64-66, 91-93, 98-100, 106-108).
NewFailures ==
    <<"vertex", "fragment", "link", "axes_vertex", "axes_fragment", "axes_link">>

\* A new that goes on after a failed compile or link and returns the
\* renderer with the handles it would have had.
NewKeepsPartial(g, failed_at) ==
    LET g1 == IF failed_at >= 3 THEN GlCreate(g, "program", NoVolumeData) ELSE g
        g2 == IF failed_at >= 4 THEN GlCreate(g1, "vao", NoVolumeData) ELSE g1
        g3 == IF failed_at >= 6 THEN GlCreate(g2, "axes_program", NoVolumeData) ELSE g2
        g4 == IF failed_at >= 7
              THEN GlCreate(GlCreate(g3, "axes_vao", NoVolumeData), "axes_vbo",
                            NoVolumeData)
              ELSE g3
    IN [renderer |->
           [some |-> TRUE, program |-> g.next, vao |-> g.next + 1,
            axes_program |-> g.next + 2, axes_vao |-> g.next + 3,
            axes_vbo |-> g.next + 4,
            volume_texture |-> 0, occupancy_texture |-> 0,
            volume_dims |-> <<1, 1, 1>>, value_range |-> <<0, 1>>],
        gl |-> g4, panic |-> "none"]

\* VolumeRenderer::new: the renderer, the context after it and the step
\* that panicked, "none" when it returned.  failed_at is 7 for no failure.
New(g, failed_at) ==
    LET g1 == IF failed_at >= 3 THEN GlCreate(g, "program", NoVolumeData) ELSE g
        g2 == IF failed_at >= 4 THEN GlCreate(g1, "vao", NoVolumeData) ELSE g1
        g3 == IF failed_at >= 6 THEN GlCreate(g2, "axes_program", NoVolumeData) ELSE g2
        g4 == IF failed_at >= 7
              THEN GlCreate(GlCreate(g3, "axes_vao", NoVolumeData), "axes_vbo",
                            NoVolumeData)
              ELSE g3
    IN IF failed_at <= Len(NewFailures)
       THEN [renderer |-> NoRenderer, gl |-> g4, panic |-> NewFailures[failed_at]]
       ELSE [renderer |->
                [some |-> TRUE, program |-> g.next, vao |-> g.next + 1,
                 axes_program |-> g.next + 2, axes_vao |-> g.next + 3,
                 axes_vbo |-> g.next + 4,
                 volume_texture |-> 0, occupancy_texture |-> 0,
                 volume_dims |-> <<1, 1, 1>>, value_range |-> <<0, 1>>],
             gl |-> g4, panic |-> "none"]

\* An upload_volume that does not delete the textures it replaces.
UploadVolumeKeepsOld(r, g, vol) ==
    LET g3 == GlCreate(g, "volume_texture", vol)
        g4 == GlCreate(g3, "occupancy_texture", vol)
    IN [renderer |-> [r EXCEPT !.volume_dims = vol.dims,
                               !.value_range = vol.value_range,
                               !.volume_texture = g.next,
                               !.occupancy_texture = g3.next],
        gl |-> g4]

\* VolumeRenderer::upload_volume; a texture field of 0 is None.
UploadVolume(r, g, vol) ==
    LET g1 == IF r.volume_texture # 0 THEN GlDelete(g, r.volume_texture) ELSE g
        g2 == IF r.occupancy_texture # 0 THEN GlDelete(g1, r.occupancy_texture) ELSE g1
        g3 == GlCreate(g2, "volume_texture", vol)
        g4 == GlCreate(g3, "occupancy_texture", vol)
    IN [renderer |-> [r EXCEPT !.volume_dims = vol.dims,
                               !.value_range = vol.value_range,
                               !.volume_texture = g2.next,
                               !.occupancy_texture = g3.next],
        gl |-> g4]

\* VolumeRenderer::has_volume.
HasVolume(r) == r.volume_texture # 0

\* render_with_params without its early return (volume_renderer.rs:329-331).
RenderWithParamsUnguarded(r, g, view, value_range) ==
    [g EXCEPT !.blend = FALSE, !.cull_face = FALSE,
              !.draws.volume = @ + 1,
              !.last_draw = [some |-> TRUE, kind |-> "volume", view |-> view,
                             value_range |-> value_range,
                             volume_texture |-> r.volume_texture,
                             occupancy_texture |-> r.occupancy_texture]]

\* VolumeRenderer::render_with_params: the context after it.
RenderWithParams(r, g, view, value_range) ==
    IF r.volume_texture = 0 THEN g
    ELSE [g EXCEPT !.blend = FALSE, !.cull_face = FALSE,
                   !.draws.volume = @ + 1,
                   !.last_draw = [some |-> TRUE, kind |-> "volume", view |-> view,
                                  value_range |-> value_range,
                                  volume_texture |-> r.volume_texture,
                                  occupancy_texture |-> r.occupancy_texture]]

\* VolumeRenderer::render_axes: the context after it.
RenderAxes(r, g, view) ==
    [g EXCEPT !.depth_test = FALSE,
              !.draws.axes = @ + 1,
              !.last_draw = [some |-> TRUE, kind |-> "axes", view |-> view,
                             value_range |-> <<0, 0>>,
                             volume_texture |-> 0, occupancy_texture |-> 0]]

\* VolumeRenderer::destroy: the context after it; the renderer is borrowed
\* immutably and keeps its fields.
Destroy(r, g) ==
    LET g1 == GlDelete(GlDelete(g, r.program), r.vao)
        g2 == IF r.volume_texture # 0 THEN GlDelete(g1, r.volume_texture) ELSE g1
        g3 == IF r.occupancy_texture # 0 THEN GlDelete(g2, r.occupancy_texture) ELSE g2
    IN GlDelete(GlDelete(GlDelete(g3, r.axes_program), r.axes_vao), r.axes_vbo)

\* A callback that reads the slot without emptying it.
PendingLeft(shared) == shared

\* state.pending_volume.take() (app.rs:714): the shared state after it.
TakePending(shared) == [shared EXCEPT !.pending_volume = NoVolumeData]

\* A callback that draws before it uploads the pending volume.
PaintCallbackDrawsFirst(r, g, shared, failed_at) ==
    LET made == IF r.some THEN [renderer |-> r, gl |-> g, panic |-> "none"]
                ELSE New(g, failed_at)
        draws == shared.params.has_volume /\ HasVolume(made.renderer)
        g1 == IF draws
              THEN RenderWithParams(made.renderer, made.gl, shared.params.view,
                                    shared.params.value_range)
              ELSE made.gl
        g2 == IF draws /\ shared.params.show_axes
              THEN RenderAxes(made.renderer, g1, shared.params.view)
              ELSE g1
        up == IF shared.pending_volume.some
              THEN UploadVolume(made.renderer, g2, shared.pending_volume)
              ELSE [renderer |-> made.renderer, gl |-> g2]
    IN IF made.panic # "none"
       THEN [renderer |-> made.renderer, gl |-> made.gl, shared |-> shared,
             panic |-> made.panic, uploaded |-> NoVolumeData, drew |-> FALSE]
       ELSE [renderer |-> up.renderer, gl |-> up.gl,
             shared |-> TakePending(shared),
             panic |-> "none", uploaded |-> shared.pending_volume, drew |-> draws]

\* The paint callback (app.rs:695-747) run on RENDERER r, context g and the
\* shared state: what they are after it, the step of new that panicked and
\* the volume it handed to upload_volume.
PaintCallback(r, g, shared, failed_at) ==
    LET made == IF r.some THEN [renderer |-> r, gl |-> g, panic |-> "none"]
                ELSE New(g, failed_at)
        up == IF shared.pending_volume.some
              THEN UploadVolume(made.renderer, made.gl, shared.pending_volume)
              ELSE [renderer |-> made.renderer, gl |-> made.gl]
        draws == shared.params.has_volume /\ HasVolume(up.renderer)
        g1 == IF draws
              THEN RenderWithParams(up.renderer, up.gl, shared.params.view,
                                    shared.params.value_range)
              ELSE up.gl
        g2 == IF draws /\ shared.params.show_axes
              THEN RenderAxes(up.renderer, g1, shared.params.view)
              ELSE g1
    IN IF made.panic # "none"
       THEN [renderer |-> made.renderer, gl |-> made.gl, shared |-> shared,
             panic |-> made.panic, uploaded |-> NoVolumeData, drew |-> FALSE]
       ELSE [renderer |-> up.renderer, gl |-> g2,
             shared |-> TakePending(shared),
             panic |-> "none", uploaded |-> shared.pending_volume, drew |-> draws]

\* The volumes of the server's list: the VolumeInfo of each (dimensions,
\* value_range) and the voxels /api/volumes/{id}/full returns for it.
VolumeIds == {"a", "b"}

VolumeInfoOf(id) ==
    IF id = "a"
    THEN [dimensions |-> <<1, 1, 2>>, value_range |-> <<0, 5>>, data |-> <<0, 5>>]
    ELSE [dimensions |-> <<1, 2, 1>>, value_range |-> <<2, 9>>, data |-> <<2, 9>>]

\* Ok(VolumeData { data, dims: info.dimensions, value_range:
\* info.value_range }) of fetch number req (app.rs:291-295); the number tells
\* two fetches of one volume apart.
FetchedVolume(id, req) ==
    [some |-> TRUE, data |-> VolumeInfoOf(id).data,
     dims |-> VolumeInfoOf(id).dimensions,
     value_range |-> VolumeInfoOf(id).value_range, req |-> req]

\* The RenderParams that are tried.
ParamsSet ==
    [view : {0, 1}, value_range : {<<0, 1>>, <<0, 5>>, <<2, 9>>},
     has_volume : BOOLEAN, show_axes : BOOLEAN]

\* A run of calls on one renderer, as a caller of its public methods and
\* of the paint callback may make them.
Calling == ui_pc = "calls" /\ hist.panic = "none" /\ hist.frames < MaxCalls

CallNew(failed_at) ==
    /\ Calling
    /\ ~renderer.some
    /\ renderer' = New(gl, failed_at).renderer
    /\ gl' = New(gl, failed_at).gl
    /\ hist' = [hist EXCEPT !.frames = @ + 1, !.call = "new",
                            !.panic = New(gl, failed_at).panic]
    /\ UNCHANGED <<app, async_state, threads, shared_render_state, ui_pc>>

CallUploadVolume(id) ==
    /\ Calling
    /\ renderer.some
    /\ LET vol == FetchedVolume(id, hist.frames + 1)
       IN /\ renderer' = UploadVolume(renderer, gl, vol).renderer
          /\ gl' = UploadVolume(renderer, gl, vol).gl
          /\ hist' = [hist EXCEPT !.frames = @ + 1, !.call = "upload_volume",
                                  !.uploads = Append(@, vol)]
    /\ UNCHANGED <<app, async_state, threads, shared_render_state, ui_pc>>

CallRenderWithParams(params) ==
    /\ Calling
    /\ renderer.some
    /\ gl' = RenderWithParams(renderer, gl, params.view, params.value_range)
    /\ hist' = [hist EXCEPT !.frames = @ + 1, !.call = "render_with_params"]
    /\ UNCHANGED <<app, async_state, threads, shared_render_state, renderer, ui_pc>>

CallRenderAxes(params) ==
    /\ Calling
    /\ renderer.some
    /\ gl' = RenderAxes(renderer, gl, params.view)
    /\ hist' = [hist EXCEPT !.frames = @ + 1, !.call = "render_axes"]
    /\ UNCHANGED <<app, async_state, threads, shared_render_state, renderer, ui_pc>>

CallDestroy ==
    /\ Calling
    /\ renderer.some
    /\ gl' = Destroy(renderer, gl)
    /\ hist' = [hist EXCEPT !.frames = @ + 1, !.call = "destroy",
                            !.destroys = @ + 1]
    /\ UNCHANGED <<app, async_state, threads, shared_render_state, renderer, ui_pc>>

\* The paint callback on a shared state of any content.
CallPaintCallback(shared, failed_at) ==
    /\ Calling
    /\ LET after == PaintCallback(renderer, gl, shared, failed_at)
       IN /\ renderer' = after.renderer
          /\ gl' = after.gl
          /\ hist' = [hist EXCEPT !.frames = @ + 1,
                                  !.call = "paint_callback",
                                  !.panic = after.panic,
                                  !.uploads = IF after.uploaded.some
                                              THEN Append(@, after.uploaded)
                                              ELSE @]
    /\ UNCHANGED <<app, async_state, threads, shared_render_state, ui_pc>>

InitRenderer ==
    /\ ResampleIdle
    /\ ServerIdle
    /\ CameraIdle
    /\ OccupancyIdle
    /\ PickerIdle
    /\ app = NewApp
    /\ async_state = DefaultAsync
    /\ threads = {}
    /\ shared_render_state = DefaultShared
    /\ renderer = NoRenderer
    /\ gl = FreshGl
    /\ ui_pc = "calls"
    /\ hist = NoHistory

NextRenderer ==
    /\ \/ \E failed_at \in 1..7 : CallNew(failed_at)
       \/ \E id \in VolumeIds : CallUploadVolume(id)
       \/ \E params \in ParamsSet : CallRenderWithParams(params)
       \/ \E params \in ParamsSet : CallRenderAxes(params)
       \/ CallDestroy
       \/ \E params \in ParamsSet : \E id \in VolumeIds \cup {"none"} :
            \E failed_at \in 1..7 :
              CallPaintCallback(
                  [params |-> params,
                   pending_volume |-> IF id = "none" THEN NoVolumeData
                                      ELSE FetchedVolume(id, hist.frames + 1)],
                  failed_at)
    /\ UNCHANGED <<resampleVars, serverVars, cameraVars, occupancyVars, pickerVars>>

SpecRenderer == InitRenderer /\ [][NextRenderer]_vars

----------------------------------------------------------------------------
(* The client application: App (client/src/app.rs).                         *)
(*                                                                         *)
(* eframe calls App::update once per frame and runs the paint callbacks    *)
(* that update registered after it has returned, on the same thread; the   *)
(* fetch threads write their result at any time.  ui_pc is "poll" before   *)
(* update, "ui" between poll_async_state and the rest of update, "paint"   *)
(* when update has registered the callback, "panicked" after a panic.      *)

\* A run has at most MaxFrames frames and MaxFetches volume-data fetches.
MaxFrames == 4

MaxFetches == 3

\* The thread of fetch_volumes writes its result (app.rs:225-237).
ListThreadWrites(t, ok) ==
    /\ t \in threads
    /\ t.kind = "list"
    /\ ui_pc # "panicked"
    /\ async_state' = [async_state EXCEPT !.volumes =
                          IF ok THEN [some |-> TRUE, ok |-> TRUE, volumes |-> VolumeIds]
                          ELSE [some |-> TRUE, ok |-> FALSE,
                                e |-> "Failed to fetch volumes"]]
    /\ threads' = threads \ {t}
    /\ UNCHANGED <<app, shared_render_state, renderer, gl, ui_pc, hist>>

\* The thread of fetch_volume_data writes its result (app.rs:281-308); the
\* VolumeInfo was found when the fetch was made, the id being one of the
\* list that was on display.
DataThreadWrites(t, ok) ==
    /\ t \in threads
    /\ t.kind = "data"
    /\ ui_pc # "panicked"
    /\ async_state' = [async_state EXCEPT !.volume_data =
                          IF ok THEN [some |-> TRUE, ok |-> TRUE,
                                      data |-> FetchedVolume(t.id, t.req)]
                          ELSE [some |-> TRUE, ok |-> FALSE,
                                e |-> "Failed to fetch volume"]]
    /\ threads' = threads \ {t}
    /\ hist' = [hist EXCEPT !.failed = @ \/ ~ok]
    /\ UNCHANGED <<app, shared_render_state, renderer, gl, ui_pc>>

\* A failure branch that also drops the volume on display.
VolumeDataFailedClears(a, e) ==
    [a EXCEPT !.error = e, !.loading_volume = FALSE, !.has_volume = FALSE,
              !.cpu_volume_data = NoVolumeData, !.loaded_volume = "none"]

\* The Err(e) branch for state.volume_data (app.rs:388-391).
VolumeDataFailed(a, e) == [a EXCEPT !.error = e, !.loading_volume = FALSE]

\* App::poll_async_state, at the start of App::update (app.rs:358-395, 817).
PollAsyncState ==
    /\ ui_pc = "poll"
    /\ LET vols == async_state.volumes
           vd == async_state.volume_data
           app1 == IF ~vols.some THEN app
                   ELSE IF vols.ok
                   THEN [app EXCEPT !.volumes = vols.volumes, !.loading = FALSE,
                                    !.error = "none"]
                   ELSE [app EXCEPT !.error = vols.e, !.loading = FALSE]
       IN /\ async_state' = DefaultAsync
          /\ app' = IF ~vd.some THEN app1
                    ELSE IF vd.ok
                    THEN [app1 EXCEPT !.loading_volume = FALSE,
                                      !.cpu_volume_data = vd.data,
                                      !.has_volume = TRUE,
                                      !.loaded_volume = app.selected_volume]
                    ELSE VolumeDataFailed(app1, vd.e)
          /\ shared_render_state' =
                IF vd.some /\ vd.ok
                THEN [shared_render_state EXCEPT
                         !.params.value_range = vd.data.value_range,
                         !.pending_volume = vd.data]
                ELSE shared_render_state
          /\ hist' = IF vd.some /\ vd.ok /\ shared_render_state.pending_volume.some
                     THEN [hist EXCEPT !.overwritten =
                              @ \cup {shared_render_state.pending_volume}]
                     ELSE hist
    /\ ui_pc' = "ui"
    /\ UNCHANGED <<threads, renderer, gl>>

\* What the user does in a frame: nothing, the Retry button, a choice in
\* the volume list, a drag or scroll in the viewport, the axes checkbox.
Inputs == {"none", "retry", "drag", "axes"} \cup VolumeIds

\* Where the pointer is for the viewport's response (app.rs:593, 621-622):
\* not hovering; hovering at a position whose ray runs through the centre
\* of the cube, or beside the cube; hovered() with hover_pos() None.
Pointers == {"away", "centre", "beside", "nopos"}

\* The ray render_viewport unprojects from the hover position
\* (app.rs:624-638), with the fields raycast_volume reads; view 1 is the
\* volume turned a quarter about z.
HoverRay(pointer, a) ==
    [ray_origin |-> IF pointer = "centre" THEN <<50, 50, 49>> ELSE <<300, 50, 49>>,
     ray_dir |-> <<0, 0, 5>>,
     cpu_volume_data |-> a.cpu_volume_data,
     volume_rotation |-> IF a.view = 0 THEN Identity3
                         ELSE <<<<0, -1, 0>>, <<1, 0, 0>>, <<0, 0, 1>>>>]

\* The hover handling of render_viewport (app.rs:621-649): the frame's
\* raycast, if it is made, and hover_info after it.
HoverHandled(pointer, a) ==
    LET raycasts == /\ pointer \in {"centre", "beside"}
                    /\ a.has_volume /\ a.cpu_volume_data.some
        hit == IF raycasts THEN RaycastVolume(HoverRay(pointer, a)).hover ELSE NoHover
    IN [raycast |-> [ran |-> raycasts, hover |-> hit],
        hover_info |->
            IF pointer = "nopos" /\ a.has_volume /\ a.cpu_volume_data.some
            THEN a.hover_info
            ELSE IF hit.some
            THEN [valid |-> hit.valid, position |-> hit.position,
                  value |-> hit.value, normalized |-> hit.normalized,
                  voxel |-> hit.voxel]
            ELSE [a.hover_info EXCEPT !.valid = FALSE]]

\* The rest of App::update after the poll (app.rs:819-862): render_sidebar,
\* render_viewport with its hover handling and its write of the params, and
\* the fetch of a newly selected volume.  The widgets of the sidebar are
\* used with the pointer away from the viewport.
UiFrame(input, pointer) ==
    /\ ui_pc = "ui"
    /\ hist.frames < MaxFrames
    /\ input \notin {"none", "drag"} => pointer = "away"
    /\ input = "retry" => ~app.loading /\ app.error # "none"
    /\ input \in VolumeIds =>
          /\ ~app.loading /\ app.error = "none"
          /\ input \in app.volumes
          /\ hist.fetches < MaxFetches
    /\ LET volume_changed == input \in VolumeIds /\ input # app.selected_volume
           fetches == volume_changed /\ app.loaded_volume # input
           app0 == [app EXCEPT
                       !.loading = IF input = "retry" THEN TRUE ELSE @,
                       !.error = IF input = "retry" THEN "none" ELSE @,
                       !.selected_volume = IF input \in VolumeIds THEN input ELSE @,
                       !.view = IF input = "drag" THEN 1 - @ ELSE @,
                       !.show_axes = IF input = "axes" THEN ~@ ELSE @,
                       !.loading_volume = IF fetches THEN TRUE ELSE @]
           hover == HoverHandled(pointer, app0)
           app1 == [app0 EXCEPT !.hover_info = hover.hover_info]
           params == [shared_render_state.params EXCEPT
                         !.view = app1.view,
                         !.has_volume = app.has_volume,
                         !.show_axes = app1.show_axes]
       IN /\ app' = app1
          /\ shared_render_state' = [shared_render_state EXCEPT !.params = params]
          /\ threads' = threads
                \cup (IF input = "retry"
                      THEN {[kind |-> "list", id |-> "none", req |-> 0]} ELSE {})
                \cup (IF fetches
                      THEN {[kind |-> "data", id |-> input, req |-> hist.fetches + 1]}
                      ELSE {})
          /\ hist' = [hist EXCEPT !.frames = @ + 1,
                                  !.snapshot = params,
                                  !.raycast = hover.raycast,
                                  !.fetches = IF fetches THEN @ + 1 ELSE @]
          /\ ui_pc' = IF app.has_volume THEN "paint" ELSE "poll"
    /\ UNCHANGED <<async_state, renderer, gl>>

\* The paint callback of the frame (app.rs:695-747); a panic of
\* VolumeRenderer::new ends the process.
Paint(failed_at) ==
    /\ ui_pc = "paint"
    /\ LET after == PaintCallback(renderer, gl, shared_render_state, failed_at)
       IN /\ renderer' = after.renderer
          /\ gl' = after.gl
          /\ shared_render_state' = after.shared
          /\ ui_pc' = IF after.panic # "none" THEN "panicked" ELSE "poll"
          /\ hist' = [hist EXCEPT !.panic = after.panic,
                                  !.uploads = IF after.uploaded.some
                                              THEN Append(@, after.uploaded)
                                              ELSE @]
    /\ UNCHANGED <<app, async_state, threads>>

\* A callback run in the middle of update, after the poll and before
\* render_viewport has written the frame's params.
PaintMidUpdate ==
    /\ ui_pc = "ui"
    /\ gl.draws.volume < MaxFrames
    /\ LET after == PaintCallback(renderer, gl, shared_render_state, 7)
       IN /\ renderer' = after.renderer
          /\ gl' = after.gl
          /\ shared_render_state' = after.shared
          /\ hist' = [hist EXCEPT !.uploads = IF after.uploaded.some
                                              THEN Append(@, after.uploaded)
                                              ELSE @]
    /\ UNCHANGED <<app, async_state, threads, ui_pc>>

\* egui leaves out a callback whose rectangle is empty or clipped away: the
\* frame is painted without the callback of app.rs:749 being run.
PaintCulled ==
    /\ ui_pc = "paint"
    /\ ui_pc' = "poll"
    /\ UNCHANGED <<app, async_state, threads, shared_render_state, renderer, gl, hist>>

\* App::new (app.rs:178-213): the fields, then fetch_volumes.
InitClient ==
    /\ ResampleIdle
    /\ ServerIdle
    /\ CameraIdle
    /\ OccupancyIdle
    /\ PickerIdle
    /\ app = NewApp
    /\ async_state = DefaultAsync
    /\ threads = {[kind |-> "list", id |-> "none", req |-> 0]}
    /\ shared_render_state = DefaultShared
    /\ renderer = NoRenderer
    /\ gl = FreshGl
    /\ ui_pc = "poll"
    /\ hist = NoHistory

NextClient ==
    /\ \/ \E t \in threads : \E ok \in BOOLEAN : ListThreadWrites(t, ok)
       \/ \E t \in threads : \E ok \in BOOLEAN : DataThreadWrites(t, ok)
       \/ PollAsyncState
       \/ \E input \in Inputs : \E pointer \in Pointers : UiFrame(input, pointer)
       \/ \E failed_at \in 1..7 : Paint(failed_at)
       \/ PaintCulled
    /\ UNCHANGED <<resampleVars, serverVars, cameraVars, occupancyVars, pickerVars>>

SpecClient == InitClient /\ [][NextClient]_vars

----------------------------------------------------------------------------
(* Claims about the resampler, checked under SpecResample.                  *)

\* The factor and the source index as the specification states them.
StatedFactor == MaxOf(1, ShapeMax(ds_data.shape) \div ds_target)

NativeAt(x, y, z) ==
    ds_data.data[x * ds_data.shape[2] * ds_data.shape[3]
                 + y * ds_data.shape[3] + z + 1]

\* C1: for every field F and every target_size >= max(F.dims), downsample
\* returns a field with the dimensions of F and the value of F at every voxel.
C1_CopyWhenTargetCoversField ==
    (ds_pc = "done" /\ ds_target >= ShapeMax(ds_data.shape)) =>
        /\ ds_result.shape = ds_data.shape
        /\ Len(ds_result.data) = Len(ds_data.data)
        /\ \A i \in 1..Len(ds_data.data) : ds_result.data[i] = ds_data.data[i]

C1_Witness ==
    /\ ds_pc = "done"
    /\ ds_data.shape = <<8, 8, 8>>
    /\ ds_target = 16
    /\ ds_data.data[512] = 512
    /\ ds_result.data[512] = 512

\* C2: every dimension of the resampled field is floor(native_dim / factor),
\* with the one integer factor = max(1, floor(max(native_dims) / target_size))
\* on all three axes.
C2_DimsAreNativeOverOneFactor ==
    ds_pc = "done" =>
        /\ \A i \in 1..3 : ds_result.shape[i] = ds_data.shape[i] \div StatedFactor
        /\ Len(ds_result.data) = ShapeLen(ds_result.shape)

C2_Witness ==
    /\ ds_pc = "done"
    /\ ds_data.shape = <<64, 3, 2>>
    /\ ds_target = 16
    /\ ds_result.shape = <<16, 0, 0>>

\* C3: every destination voxel (x, y, z) holds exactly
\* field[x*factor, y*factor, z*factor], an in-bounds index of the native
\* field; an 8x8x8 field resampled to target_size 4 gives a 4x4x4 field with
\* result[0,0,0] = source[0,0,0] and result[3,3,3] = source[6,6,6].
C3_NearestPointSampling ==
    ds_pc = "done" =>
        /\ \A x \in 0..(ds_result.shape[1] - 1) :
           \A y \in 0..(ds_result.shape[2] - 1) :
           \A z \in 0..(ds_result.shape[3] - 1) :
               /\ x * StatedFactor < ds_data.shape[1]
               /\ y * StatedFactor < ds_data.shape[2]
               /\ z * StatedFactor < ds_data.shape[3]
               /\ InBounds(ds_result, x, y, z)
               /\ ArrAt(ds_result, x, y, z) =
                      NativeAt(x * StatedFactor, y * StatedFactor, z * StatedFactor)
        /\ (ds_data.shape = <<8, 8, 8>> /\ ds_target = 4) =>
               /\ ds_result.shape = <<4, 4, 4>>
               /\ ArrAt(ds_result, 0, 0, 0) = NativeAt(0, 0, 0)
               /\ ArrAt(ds_result, 3, 3, 3) = NativeAt(6, 6, 6)

C3_Witness ==
    /\ ds_pc = "done"
    /\ ds_data.shape = <<8, 8, 8>>
    /\ ds_target = 4
    /\ ds_data.data[1] = 1
    /\ ds_result.shape = <<4, 4, 4>>
    /\ ArrAt(ds_result, 3, 3, 3) = 6 * 64 + 6 * 8 + 6 + 1

----------------------------------------------------------------------------
(* Claims about the volume store and its handlers, checked under Spec.      *)

\* The resolution range as the specification states it.
StatedClamp(r) == IF r < 16 THEN 16 ELSE IF r > 512 THEN 512 ELSE r

PathOfId(id) == CHOOSE p \in Paths : FileStem(p) = id

Known(req) == req.id \in DOMAIN volumes

\* What the server answers to at-resolution requests of a known id for
\* resolution r: the handler start to end, for every state the file can be
\* in when the blocking task reads it.
AnswersAt(id, r) ==
    {AtResolutionResponse(PathOfId(id), ClampResolution(r), st) : st \in FileStates}

\* C4: get_volume_at_resolution clamps the requested resolution to [16, 512]:
\* for every known id and requested resolution r the response (bytes and
\* x-volume-dims) is the response to min(max(r, 16), 512).
C4_ClampedResolution ==
    \A req \in inflight :
        (req.op = "at" /\ req.phase = "done" /\ Known(req)) =>
            /\ req.resp \in AnswersAt(req.id, StatedClamp(req.resolution))
            /\ req.resp.status = 200 =>
                   req.resp = AtResolutionResponse(PathOfId(req.id),
                                  StatedClamp(req.resolution), "ok")

C4_Witness ==
    \E req \in inflight :
        /\ req.op = "at" /\ req.phase = "done" /\ req.id = "big"
        /\ req.resolution = 100000
        /\ req.resp.status = 200
        /\ req.resp.x_volume_dims = <<"5", "1", "2", ",", "1", ",", "1">>
        /\ Len(req.resp.body) = 2048

DigitVal(c) == CHOOSE d \in 0..9 : Digits[d + 1] = c

RECURSIVE ParseDec(_)
ParseDec(chars) ==
    IF chars = <<>> THEN 0
    ELSE ParseDec(SubSeq(chars, 1, Len(chars) - 1)) * 10 + DigitVal(chars[Len(chars)])

\* The three numbers of an "X,Y,Z" header value.
ParseDims(chars) ==
    LET commas == {i \in 1..Len(chars) : chars[i] = ","}
        c1 == CHOOSE i \in commas : \A j \in commas : i <= j
        c2 == CHOOSE i \in commas : \A j \in commas : i >= j
    IN <<ParseDec(SubSeq(chars, 1, c1 - 1)),
         ParseDec(SubSeq(chars, c1 + 1, c2 - 1)),
         ParseDec(SubSeq(chars, c2 + 1, Len(chars)))>>

\* The f32 values a little-endian body holds, as bit patterns.
DecodeLe(bytes) ==
    [i \in 1..(Len(bytes) \div 4) |->
        bytes[4 * i - 3] + 256 * bytes[4 * i - 2] + 65536 * bytes[4 * i - 1]
            + 16777216 * bytes[4 * i]]

\* C5: a successful at-resolution response carries in x-volume-dims the
\* dimensions X,Y,Z of the resampled field it returns, and its body is
\* exactly 4*X*Y*Z bytes, one little-endian f32 per voxel of that field.
C5_DimsHeaderMatchesBody ==
    \A req \in inflight :
        (req.op = "at" /\ req.phase = "done" /\ req.resp.status = 200) =>
            LET d == ParseDims(req.resp.x_volume_dims)
                field == Downsample(FileData(req.path), req.target)
            IN /\ Cardinality({i \in 1..Len(req.resp.x_volume_dims) :
                                  req.resp.x_volume_dims[i] = ","}) = 2
               /\ d = field.shape
               /\ Len(req.resp.body) = 4 * d[1] * d[2] * d[3]
               /\ DecodeLe(req.resp.body) =
                      [i \in 1..Len(field.data) |-> F32Bits(field.data[i])]

C5_Witness ==
    \E req \in inflight :
        /\ req.op = "at" /\ req.phase = "done" /\ req.id = "small"
        /\ req.resolution = 16
        /\ req.resp.status = 200
        /\ ParseDims(req.resp.x_volume_dims) = <<16, 1, 1>>
        /\ Len(req.resp.body) = 64

\* C6: for an id that is no key of the store, info, low, full and
\* at-resolution answer 404 with a structured {error} body, and no read of a
\* backing file is started.
C6_UnknownIdIs404 ==
    \A req \in inflight :
        ~Known(req) =>
            /\ req.phase = "done"
            /\ ~req.read_started
            /\ req.resp.status = 404
            /\ req.resp.kind = "error"
            /\ req.resp.body = [error |-> "Volume '" \o req.id \o "' not found"]

C6_Witness ==
    \E req \in inflight :
        /\ req.op = "full" /\ req.id = "bad"
        /\ files["samples/bad.h5"] = "ok"
        /\ req.resp.status = 404

\* C7: every failure while reading a known volume for full or at-resolution
\* (open, dataset lookup, read, or a failure inside the blocking task) gives
\* a 500 response with a structured {error} body, and the handler never
\* crashes.
C7_ReadFailureIs500 ==
    \A req \in inflight :
        (Known(req) /\ req.op \in {"full", "at"} /\ req.phase # "reading") =>
            /\ req.phase = "done"
            /\ req.resp.status # 200 =>
                   /\ req.resp.status = 500
                   /\ req.resp.kind = "error"

----------------------------------------------------------------------------
(* Claims about the occupancy grid, checked under SpecOccupancy.            *)

\* The voxels of the uploaded field whose normalized value
\* (v - min) / (max - min) exceeds 0.02, i.e. 50 * (v - min) > max - min
\* with max > min (0/0 exceeds nothing).
Significant ==
    {p \in (0..(occ_in.dims[1] - 1)) \X (0..(occ_in.dims[2] - 1))
               \X (0..(occ_in.dims[3] - 1)) :
        LET v == occ_in.data[p[1] * occ_in.dims[2] * occ_in.dims[3]
                             + p[2] * occ_in.dims[3] + p[3] + 1]
            min == occ_in.value_range[1]
            max == occ_in.value_range[2]
        IN max > min /\ 50 * (v - min) > max - min}

\* floor(coord / cell_size) with cell_size = dim / 16, clamped to 15.
StatedCell(coord, dim) ==
    IF (16 * coord) \div dim > 15 THEN 15 ELSE (16 * coord) \div dim

StatedOccupied ==
    {<<StatedCell(p[1], occ_in.dims[1]), StatedCell(p[2], occ_in.dims[2]),
       StatedCell(p[3], occ_in.dims[3])>> : p \in Significant}

\* C8: cell (i,j,k) of the grid is 1.0 iff at least one voxel mapping into it
\* has normalized value > 0.02, and 0.0 otherwise; for an all-zero field no
\* cell is occupied.
C8_OccupiedIffSignificantVoxel ==
    occ_pc = "done" =>
        /\ Len(occ_grid) = 16 * 16 * 16
        /\ LET occupied == StatedOccupied IN
           \A i \in 0..15 : \A j \in 0..15 : \A k \in 0..15 :
               occ_grid[i * 256 + j * 16 + k + 1] =
                   IF <<i, j, k>> \in occupied THEN 1 ELSE 0
        /\ (\A n \in 1..Len(occ_in.data) : occ_in.data[n] = 0) =>
               \A c \in 1..Len(occ_grid) : occ_grid[c] = 0

C8_Witness ==
    /\ occ_pc = "done"
    /\ occ_in.dims = <<3, 1, 1>>
    /\ occ_in.data = <<0, 3, 100>>
    /\ occ_grid[1] = 0
    /\ occ_grid[5 * 256 + 1] = 1
    /\ occ_grid[10 * 256 + 1] = 1
    /\ occ_grid[10 * 256 + 2] = 0

----------------------------------------------------------------------------
(* Claims about the camera, checked under SpecCamera.                       *)

\* C9: after any sequence of zoom and rotate calls from the default camera
\* the distance lies in [0.5, 10.0]; zoom(delta) sets it to
\* clamp(distance - delta, 0.5, 10.0), so zoom(20.0) from 2.0 gives 0.5 and
\* zoom(-20.0) gives 10.0.
C9_DistanceClamped ==
    /\ camera.distance >= 50
    /\ camera.distance <= 1000
    /\ cam_last.op = "zoom" =>
           camera.distance =
               IF cam_last.before - cam_last.delta < 50 THEN 50
               ELSE IF cam_last.before - cam_last.delta > 1000 THEN 1000
               ELSE cam_last.before - cam_last.delta
    /\ cam_last.op = "rotate" => camera.distance = cam_last.before
    /\ (cam_last.op = "zoom" /\ cam_last.before = 200 /\ cam_last.delta = 2000)
           => camera.distance = 50
    /\ (cam_last.op = "zoom" /\ cam_last.before = 200 /\ cam_last.delta = -2000)
           => camera.distance = 1000

C9_Witness ==
    /\ cam_last = [op |-> "zoom", delta |-> 2000, before |-> 200]
    /\ camera.distance = 50
    /\ camera.yaw # 0

----------------------------------------------------------------------------
(* Claims about the picker, checked under SpecPicker.                       *)

MaxOver(S) == CHOOSE x \in S : \A y \in S : y <= x

MinOver(S) == CHOOSE x \in S : \A y \in S : x <= y

\* No slab product of the ray is 0 * infinity: the ray does not run in the
\* plane of a face of the cube.
SlabsDefined ==
    \A a \in 1..3 : rc_in.ray_dir[a] = 0 => rc_in.ray_origin[a] \notin {0, 100}

\* tNear and tFar as the specification states them.
StatedTNear ==
    LET t0 == [a \in 1..3 |-> SlabT(0, rc_in.ray_origin[a], rc_in.ray_dir[a])]
        t1 == [a \in 1..3 |-> SlabT(100, rc_in.ray_origin[a], rc_in.ray_dir[a])]
    IN MaxOver({MinOver({t0[a], t1[a]}) : a \in 1..3} \cup {0})

StatedTFar ==
    LET t0 == [a \in 1..3 |-> SlabT(0, rc_in.ray_origin[a], rc_in.ray_dir[a])]
        t1 == [a \in 1..3 |-> SlabT(100, rc_in.ray_origin[a], rc_in.ray_dir[a])]
    IN MinOver({MaxOver({t0[a], t1[a]}) : a \in 1..3})

\* The ray is inside the cube at some t >= 0, looked for at every 1/48 of
\* the edge up to the longest way through the origins' range.
CrossesCube ==
    \E k \in 0..168 :
        \A a \in 1..3 :
            /\ PosAt(rc_in.ray_origin, rc_in.ray_dir, 25 * k)[a] > 0
            /\ PosAt(rc_in.ray_origin, rc_in.ray_dir, 25 * k)[a] < PosOne

\* C11: the slab test takes tNear as the largest of the per-axis entries
\* and 0, and tFar as the smallest of the per-axis exits; raycast_volume
\* returns no hit without marching whenever tNear > tFar, and for every ray
\* that passes through the cube it has tNear <= tFar and marches.
C11_SlabTest ==
    (rc_pc = "done" /\ rc_in.cpu_volume_data.some) =>
        /\ SlabsDefined =>
              /\ rc_out.t_near = StatedTNear
              /\ rc_out.t_far = StatedTFar
        /\ rc_out.t_near > rc_out.t_far =>
              /\ ~rc_out.marched
              /\ rc_out.hover = NoHover
        /\ CrossesCube =>
              /\ rc_out.t_near <= rc_out.t_far
              /\ rc_out.marched

\* A ray from outside through the middle of the cube was marched from
\* t = 1 to t = 2.
C11_Witness ==
    /\ rc_pc = "done"
    /\ rc_in.cpu_volume_data.some
    /\ rc_in.ray_origin = <<50, 50, -100>>
    /\ rc_in.ray_dir = <<0, 0, 5>>
    /\ CrossesCube
    /\ rc_out.marched
    /\ rc_out.t_near = 1200
    /\ rc_out.t_far = 2400

\* The inverse of the rotation of the call: the rotation that undoes it.
StatedInverse ==
    CHOOSE m \in Rotations :
        \A i \in 1..3 : \A j \in 1..3 :
            m[i][1] * rc_in.volume_rotation[1][j]
                + m[i][2] * rc_in.volume_rotation[2][j]
                + m[i][3] * rc_in.volume_rotation[3][j] = Identity3[i][j]

\* The nearest voxel of the k-th sample of the interval: the sample point
\* turned back about the centre of the cube, then floor(coordinate * dim),
\* at most dim - 1.
StatedVoxel(k) ==
    LET pos == [a \in 1..3 |-> rc_in.ray_origin[a] * 60
                                + rc_in.ray_dir[a] * (rc_out.t_near + k * PickStep)]
        back == [i \in 1..3 |->
                   StatedInverse[i][1] * (pos[1] - 3000)
                       + StatedInverse[i][2] * (pos[2] - 3000)
                       + StatedInverse[i][3] * (pos[3] - 3000) + 3000]
    IN [a \in 1..3 |->
           MinOver({(back[a] * rc_in.cpu_volume_data.dims[a]) \div 6000,
                    rc_in.cpu_volume_data.dims[a] - 1})]

StatedValue(v) ==
    rc_in.cpu_volume_data.data[v[1] * rc_in.cpu_volume_data.dims[2]
                                    * rc_in.cpu_volume_data.dims[3]
                               + v[2] * rc_in.cpu_volume_data.dims[3] + v[3] + 1]

\* The samples of [tNear, tFar) whose nearest voxel has a normalized value
\* above 0.05 = 1/20.
StatedHits ==
    LET lo == rc_in.cpu_volume_data.value_range[1]
        hi == rc_in.cpu_volume_data.value_range[2]
    IN {k \in 0..((rc_out.t_far - rc_out.t_near) \div PickStep) :
           /\ rc_out.t_near + k * PickStep < rc_out.t_far
           /\ hi > lo
           /\ 20 * (StatedValue(StatedVoxel(k)) - lo) > hi - lo}

\* The ray passes through the centre of voxel (2,2,2) of a 5x5x5 field.
AimedAtCentre ==
    \E t \in 0..3000 :
        \A a \in 1..3 : rc_in.ray_origin[a] * 60 + rc_in.ray_dir[a] * t = 3000

----------------------------------------------------------------------------
(* Claims about the client application, checked under SpecClient.          *)

Uploaded == {hist.uploads[i] : i \in DOMAIN hist.uploads}

\* C13: the pending-upload slot holds at most one volume that has not been
\* applied, the one stored last; a volume that was overwritten in the slot
\* is never passed to upload_volume, and no stored volume is uploaded
\* twice.
C13_PendingSlotLastWriteWins ==
    /\ shared_render_state.pending_volume.some =>
          /\ shared_render_state.pending_volume = app.cpu_volume_data
          /\ shared_render_state.pending_volume \notin Uploaded
          /\ shared_render_state.pending_volume \notin hist.overwritten
    /\ hist.overwritten \cap Uploaded = {}
    /\ \A i \in DOMAIN hist.uploads : \A j \in DOMAIN hist.uploads :
          hist.uploads[i] = hist.uploads[j] => i = j

\* The volume of the first fetch was overwritten in the slot by the volume
\* of the second, and the second was uploaded.
C13_Witness ==
    /\ \E v \in hist.overwritten : v.req = 1
    /\ Len(hist.uploads) = 1
    /\ hist.uploads[1].req = 2
    /\ ~shared_render_state.pending_volume.some

\* The volume a fetched VolumeData was asked for.
IssuedFor(v) == CHOOSE id \in VolumeIds : FetchedVolume(id, v.req) = v

\* C14: when poll_async_state takes the result of a volume-data fetch that
\* was issued for another volume than the one selected now, it discards
\* it: cpu_volume_data, the pending-upload slot and loaded_volume stay as
\* they were.
C14_StaleFetchDiscarded ==
    [][(/\ ui_pc = "poll"
        /\ ui_pc' = "ui"
        /\ async_state.volume_data.some
        /\ async_state.volume_data.ok
        /\ IssuedFor(async_state.volume_data.data) # app.selected_volume)
          => /\ app'.cpu_volume_data = app.cpu_volume_data
             /\ shared_render_state'.pending_volume = shared_render_state.pending_volume
             /\ app'.loaded_volume = app.loaded_volume]_vars

\* C15: a poll that takes a failed volume-list or volume-data fetch stores
\* its message in error and clears loading, respectively loading_volume
\* (of two failures taken in one poll the volume-data message is the one
\* that stays), and, unless it also takes a volume that did arrive, leaves
\* cpu_volume_data, has_volume, loaded_volume, the pending-upload slot and
\* the render parameters as they were.
C15_FetchFailureKeepsState ==
    [][(ui_pc = "poll" /\ ui_pc' = "ui") =>
         LET list_failed == async_state.volumes.some /\ ~async_state.volumes.ok
             data_failed == async_state.volume_data.some /\ ~async_state.volume_data.ok
             data_arrived == async_state.volume_data.some /\ async_state.volume_data.ok
         IN /\ list_failed =>
                  /\ ~app'.loading
                  /\ ~data_failed => app'.error = async_state.volumes.e
            /\ data_failed =>
                  /\ ~app'.loading_volume
                  /\ app'.error = async_state.volume_data.e
            /\ ((list_failed \/ data_failed) /\ ~data_arrived) =>
                  /\ app'.cpu_volume_data = app.cpu_volume_data
                  /\ app'.has_volume = app.has_volume
                  /\ app'.loaded_volume = app.loaded_volume
                  /\ shared_render_state' = shared_render_state]_vars

\* A volume is on display and the fetch of another one has just failed:
\* the poll has stored the message and the volume is still there.
C15_Witness ==
    /\ ui_pc = "ui"
    /\ app.error = "Failed to fetch volume"
    /\ ~app.loading_volume
    /\ app.has_volume
    /\ app.cpu_volume_data.some
    /\ app.selected_volume # IssuedFor(app.cpu_volume_data)
    /\ HasVolume(renderer)
    /\ ~async_state.volume_data.some

----------------------------------------------------------------------------
(* Claims about the renderer, checked under SpecRenderer.                   *)

\* C16: render_with_params on a renderer with no volume texture makes no
\* draw call and leaves the GL context as it was, and the paint callback
\* makes neither the volume draw nor the axes draw as long as no
\* upload_volume has completed.
C16_NoDrawWithoutVolume ==
    [][/\ (hist'.call = "render_with_params" /\ hist'.frames # hist.frames
            /\ renderer.volume_texture = 0)
              => gl' = gl
       /\ (hist'.call = "paint_callback" /\ hist'.frames # hist.frames
            /\ hist'.uploads = <<>>)
              => gl'.draws = gl.draws]_vars

\* render_with_params has been called on a renderer that new had built and
\* nothing was uploaded to: the context is as new left it, nothing drawn.
C16_Witness ==
    /\ hist.call = "render_with_params"
    /\ renderer.some
    /\ renderer.volume_texture = 0
    /\ hist.uploads = <<>>
    /\ gl.draws = [volume |-> 0, axes |-> 0]
    /\ gl.blend
    /\ Cardinality(gl.objects) = 5

\* The handles the renderer's fields hold; a texture field of 0 holds none.
Held(r) ==
    {r.program, r.vao, r.axes_program, r.axes_vao, r.axes_vbo,
     r.volume_texture, r.occupancy_texture} \ {0}

\* C18: destroy, called with or without a volume bound, leaves no object of
\* the renderer allocated, and a destroy that directly follows a destroy
\* issues no delete for a handle that is already deleted and leaves the GL
\* context as the first left it.
C18_DestroyIdempotent ==
    [][(hist'.call = "destroy" /\ hist'.frames # hist.frames)
          => /\ \A o \in gl'.objects : o.name \notin Held(renderer)
             /\ hist.call = "destroy"
                  => /\ gl'.stale_deletes = gl.stale_deletes
                     /\ gl' = gl]_vars

\* The textures of one kind allocated in the context.
Textures(kind) == {o \in gl.objects : o.kind = kind}

----------------------------------------------------------------------------
(* Claims about the renderer inside the application, under SpecClient.      *)

\* The renderer's two programs and their vertex objects are all there.
PipelineBuilt(r, g) ==
    \A f \in {"program", "vao", "axes_program", "axes_vao", "axes_vbo"} :
        \E o \in g.objects : o.name = r[f] /\ o.kind = f

\* C17: when a shader compile or a program link fails in VolumeRenderer::new
\* the failure is reported (the panic names the step), no renderer is stored
\* then or later, and upload_volume, render_with_params and render_axes are
\* only ever called on a renderer whose whole pipeline was built.
C17_FailedNewStoresNothing ==
    /\ [](/\ hist.panic # "none"
               => /\ \E i \in 1..Len(NewFailures) : hist.panic = NewFailures[i]
                  /\ ~renderer.some
                  /\ ui_pc = "panicked"
          /\ renderer.some => PipelineBuilt(renderer, gl)
          /\ ~renderer.some
               => /\ hist.uploads = <<>>
                  /\ gl.draws = [volume |-> 0, axes |-> 0])
    /\ [][hist.panic # "none" => UNCHANGED <<renderer, gl, hist>>]_vars

\* Linking the axes program has failed: the volume program, its vertex array
\* and the axes program object exist, and no renderer does.
C17_Witness ==
    /\ hist.panic = "axes_link"
    /\ ~renderer.some
    /\ Cardinality(gl.objects) = 3
    /\ app.has_volume

\* C19: the params a callback draws with are the params the frame's update
\* left in the shared state, read under one lock: the view fields, the
\* value range, show_axes and has_volume of the draw are those of that one
\* frame, and each of them is the application's value in that frame.
C19_DrawUsesOneFrameSnapshot ==
    [][gl'.draws # gl.draws
          => /\ shared_render_state.params = hist.snapshot
             /\ hist.snapshot.has_volume
             /\ gl'.draws.volume = gl.draws.volume + 1
             /\ gl'.draws.axes = gl.draws.axes + (IF hist.snapshot.show_axes THEN 1 ELSE 0)
             /\ gl'.last_draw.view = hist.snapshot.view
             /\ gl'.last_draw.kind = "volume"
                  => gl'.last_draw.value_range = hist.snapshot.value_range
             /\ hist.snapshot.view = app.view
             /\ hist.snapshot.show_axes = app.show_axes
             /\ hist.snapshot.has_volume = app.has_volume
             /\ hist.snapshot.value_range = app.cpu_volume_data.value_range]_vars

\* A frame has drawn volume b without axes after a drag: the draw has the
\* dragged view and the value range of b, as the frame's update left them.
C19_Witness ==
    /\ ui_pc = "poll"
    /\ gl.last_draw.some
    /\ gl.last_draw.kind = "volume"
    /\ gl.last_draw.view = 1
    /\ gl.last_draw.value_range = <<2, 9>>
    /\ gl.draws = [volume |-> 2, axes |-> 1]
    /\ shared_render_state.params = hist.snapshot

----------------------------------------------------------------------------
(* More claims about the resampler, checked under SpecResample.             *)

\* C25 as stated: for target_size <= max(native_dims) the largest axis of
\* the resampled field is at most target_size.
C25_LargestAxisAtMostTarget ==
    (ds_pc = "done" /\ ds_target <= ShapeMax(ds_data.shape))
        => ShapeMax(ds_result.shape) <= ds_target

\* C25 as amended: for target_size <= max(native_dims) the largest axis of
\* the resampled field is at least target_size and less than twice
\* target_size, and it is floor(max(native_dims) / factor).
C25_LargestAxisBelowTwiceTarget ==
    (ds_pc = "done" /\ ds_target <= ShapeMax(ds_data.shape))
        => /\ ShapeMax(ds_result.shape) >= ds_target
           /\ ShapeMax(ds_result.shape) < 2 * ds_target
           /\ ShapeMax(ds_result.shape) = ShapeMax(ds_data.shape) \div StatedFactor

\* A 130x2x1 field resampled to 64: the factor is 2 and the longest axis 65.
C25_Witness ==
    /\ ds_pc = "done"
    /\ ds_data.shape = <<130, 2, 1>>
    /\ ds_target = 64
    /\ ds_result.shape = <<65, 1, 0>>

\* C26: for a native field with all three dimensions >= 1 and a
\* target_size in [16, 512] (the preview's 64 among them), every dimension
\* of the resampled field is >= 1: the field returned is never empty.
C26_ResampledNeverEmpty ==
    (/\ ds_pc = "done"
     /\ \A i \in 1..3 : ds_data.shape[i] >= 1
     /\ ds_target >= 16 /\ ds_target <= 512)
        => /\ \A i \in 1..3 : ds_result.shape[i] >= 1
           /\ Len(ds_result.data) >= 1

----------------------------------------------------------------------------
(* More claims about the picker, checked under SpecPicker.                  *)

\* C27: raycast_volume computes no dims[a] - 1 that underflows, a hit has
\* voxel indices vx < dims[0], vy < dims[1], vz < dims[2], and its value is
\* the element of data at vx*ny*nz + vy*nz + vz, an index below data.len().
C27_PickerIndicesInBounds ==
    rc_pc = "done" =>
        /\ ~rc_out.underflow
        /\ rc_out.hover.some =>
               LET dims == rc_in.cpu_volume_data.dims
                   v == rc_out.hover.voxel
                   idx == v[1] * dims[2] * dims[3] + v[2] * dims[3] + v[3]
               IN /\ \A a \in 1..3 : v[a] >= 0 /\ v[a] < dims[a]
                  /\ idx < Len(rc_in.cpu_volume_data.data)
                  /\ rc_out.hover.value = rc_in.cpu_volume_data.data[idx + 1]

----------------------------------------------------------------------------
(* More claims about the client application, checked under SpecClient.      *)

\* A volume-data fetch was issued and no poll has taken its result: its
\* thread has not written yet, or its result lies in the slot.
FetchOutstanding ==
    \/ \E t \in threads : t.kind = "data"
    \/ async_state.volume_data.some

\* C23: loading_volume is true in every state in which a volume-data fetch
\* has been issued and its result has not been taken by poll_async_state,
\* also when two fetches are outstanding.
C23_LoadingWhileFetchOutstanding ==
    FetchOutstanding => app.loading_volume

\* C24: hover_info.valid is true only if the frame's raycast returned a
\* hit, and then hover_info holds the voxel, value and position of that
\* hit: it is false when the pointer is not over the viewport, when no
\* volume is loaded and when the ray misses.
C24_HoverValidOnlyOnHit ==
    app.hover_info.valid
        => /\ hist.raycast.ran
           /\ hist.raycast.hover.some
           /\ app.hover_info.voxel = hist.raycast.hover.voxel
           /\ app.hover_info.value = hist.raycast.hover.value
           /\ app.hover_info.position = hist.raycast.hover.position

\* C28: loaded_volume, when set, is the identifier of the volume whose data
\* cpu_volume_data holds, which is also the volume placed last in the
\* pending-upload slot.
C28_LoadedVolumeNamesHeldData ==
    app.loaded_volume # "none"
        => /\ app.cpu_volume_data.some
           /\ IssuedFor(app.cpu_volume_data) = app.loaded_volume
           /\ shared_render_state.pending_volume.some
                => shared_render_state.pending_volume = app.cpu_volume_data

\* C29: once every volume-data fetch has completed successfully and its
\* result has been polled, in whatever order the fetches completed, the
\* data in cpu_volume_data is that of the volume selected last, and, once
\* the callback has emptied the pending slot, so is the texture bound in
\* the renderer.
C29_LastSelectionShown ==
    (/\ app.selected_volume # "none"
     /\ ~hist.failed
     /\ ~FetchOutstanding)
        => /\ app.cpu_volume_data.some
           /\ IssuedFor(app.cpu_volume_data) = app.selected_volume
           /\ ~shared_render_state.pending_volume.some
                => /\ renderer.some
                   /\ \E o \in gl.objects :
                          /\ o.name = renderer.volume_texture
                          /\ IssuedFor(o.of) = app.selected_volume

\* C30: in every step in which the callback draws the volume, the texture
\* bound in the renderer is live and holds the volume in cpu_volume_data,
\* the value range in the params is that volume's, and the draw is issued
\* with that texture and that value range.
C30_DrawOfOneVolume ==
    [][gl'.draws.volume # gl.draws.volume
          => /\ app.cpu_volume_data.some
             /\ \E o \in gl'.objects :
                    /\ o.name = renderer'.volume_texture
                    /\ o.kind = "volume_texture"
                    /\ o.of = app.cpu_volume_data
             /\ shared_render_state.params.value_range
                    = app.cpu_volume_data.value_range
             /\ gl'.last_draw.kind = "volume"
                  => /\ gl'.last_draw.volume_texture = renderer'.volume_texture
                     /\ gl'.last_draw.value_range
                            = app.cpu_volume_data.value_range]_vars

\* Volume a was uploaded and drawn, then volume b: the last draw is a
\* volume draw with the texture of b and the value range of b while the
\* picker copy is b.
C30_Witness ==
    /\ Len(hist.uploads) = 2
    /\ IssuedFor(hist.uploads[1]) = "a"
    /\ gl.draws.volume >= 2
    /\ gl.last_draw.some
    /\ gl.last_draw.kind = "volume"
    /\ gl.last_draw.value_range = <<2, 9>>
    /\ gl.last_draw.volume_texture = renderer.volume_texture
    /\ IssuedFor(app.cpu_volume_data) = "b"
    /\ \E o \in gl.objects :
           /\ o.name = renderer.volume_texture
           /\ o.of = app.cpu_volume_data

----------------------------------------------------------------------------
(* Claims about the loading of a volume, checked under SpecStore.           *)

\* C21: every volume of the store has value_range = (min, max) with
\* min <= max, min the smallest and max the largest of the native voxels,
\* and the native data has nx*ny*nz elements for the advertised dimensions.
C21_ValueRangeOrdered ==
    \A id \in DOMAIN volumes :
        LET info == volumes[id].info IN
        /\ info.value_range[1] <= info.value_range[2]
        /\ \A i \in 1..Len(ds_data.data) :
               /\ info.value_range[1] <= ds_data.data[i]
               /\ ds_data.data[i] <= info.value_range[2]
        /\ info.dimensions = ds_data.shape
        /\ info.full_res_size = 4 * ShapeLen(info.dimensions)
====
